---- MODULE Spec2Model ----
(***************************************************************************)
(* State-machine model of the chat server: the job coordinator             *)
(* (CodexChatServer.processChat and the /chat, /stop routes), the agent    *)
(* thread registry (AgentManager), the push-channel broker (SSEManager),   *)
(* the durable thread store (ThreadStore) and the dashboard store          *)
(* (DashboardStore).                                                       *)
(*                                                                         *)
(* processChat is an async function: it is cut into one action per         *)
(* synchronous segment, i.e. at its awaits.  Segments of different jobs    *)
(* interleave freely, segments of one job run in program order.            *)
(***************************************************************************)
EXTENDS Integers, Sequences, FiniteSets, TLC

\* ------------------------------------------------------------------ bounds
MaxJobs == 2        \* jobs submitted in one run
MaxStream == 2      \* runtime events one turn may yield
MaxCanon == 2       \* distinct canonical thread ids the runtime hands out
MaxChannels == 2    \* push channels opened in one run
MaxTime == 1        \* clock ticks
MaxHours == 2       \* clock ticks where the job sweep runs
MaxDbFail == 1      \* persistence operations that throw
MaxWriteFail == 1   \* channel writes that throw
MaxStops == 1       \* stop requests
MaxDashboards == 2  \* dashboards created in one run
MaxPlotIds == 7     \* plots created in one run
MaxBatch == 2       \* entries in one saveKnowledgeEntries call
MaxLog == 3         \* rows of thread_events written by direct appendEvent calls
MaxSends == 3       \* direct sendToClient calls
MaxSweeps == 1      \* runs of the idle-thread sweep
MaxCalls == 2       \* DashboardStore calls in flight together
MaxPatch == 1       \* fields an updatePlot call supplies, two named patches apart

\* --------------------------------------------------------------- constants
MAX_PLOTS_PER_DASHBOARD == 6

\* ------------------------------------------------------------------ values
Nil == "<null>"                 \* JavaScript null / undefined
NoId == <<>>                    \* the empty string, as a thread id
ForeignKeyError == "FOREIGN KEY constraint failed"
JobIds == 1..MaxJobs
ChannelIds == 1..MaxChannels
ClientIds == {"a"}              \* client ids that open channels
LoadedAgents == {"chat"}        \* agent profiles loaded at start-up
AgentInputs == {"", "chat", "ghost"}   \* agentType of a request ("" = missing)
ClientInputs == {""} \cup ClientIds    \* clientId of a request ("" = missing)
MessageInputs == {"", "hi"}            \* message of a request ("" = missing)
CanonIds == {<<"th", k>> : k \in 1..MaxCanon}  \* ids assigned by the runtime
TempId(n) == <<"temp_", n>>     \* a locally generated placeholder id

\* Variant: no id is taken for a placeholder.
isTemporaryThreadId_Never(id) == id # NoId /\ id[1] = "tmp_"

\* A thread id is a string; it is modelled by its prefix and its remainder.
isTemporaryThreadId(id) == id # NoId /\ id[1] = "temp_"

\* ----------------------------------------------------------- runtime events
ThreadStarted(tid, n) == [type |-> "thread.started", thread_id |-> tid, text |-> Nil, seq |-> n]
ItemCompleted(txt, n) == [type |-> "item.completed", thread_id |-> NoId, text |-> txt, seq |-> n]
TurnCompleted(n) == [type |-> "turn.completed", thread_id |-> NoId, text |-> Nil, seq |-> n]
NoEvent == [type |-> Nil, thread_id |-> NoId, text |-> Nil, seq |-> 0]
RuntimeEvents(n) ==
    {ThreadStarted(t, n) : t \in CanonIds} \cup {ItemCompleted("ans", n), TurnCompleted(n)}

\* ------------------------------------------------------------------ frames
connectedFrame(c) == [type |-> "connected", clientId |-> c]
threadInfoFrame(j, tid, agent) ==
    [type |-> "thread_info", jobId |-> j, threadId |-> tid, agentType |-> agent]
transformedEvent(j, agent, tid, ev) ==
    [type |-> "agent_event", jobId |-> j, agentType |-> agent, threadId |-> tid, event |-> ev]
userEvent(j, agent, tid, message) ==
    [type |-> "agent_event", jobId |-> j, agentType |-> agent, threadId |-> tid,
     event |-> [type |-> "response_item", role |-> "user", text |-> message]]
completionEvent(j, tid, duration) ==
    [type |-> "job_complete", jobId |-> j, threadId |-> tid, duration |-> duration]
errorEvent(j, err) == [type |-> "error", jobId |-> j, error |-> err]
jobStoppedFrame(j) == [type |-> "job_stopped", jobId |-> j]

\* JSON.stringify / JSON.parse: the text is kept as a wrapped value.
JSONStringify(data) == <<"json", data>>
JSONParse(text) == text[2]

VARIABLES
    jobObj,        \* the JobInfo objects, by job id (status "none": not created)
    jobs,          \* CodexChatServer.jobs: the job ids in the map
    proc,          \* processChat's locals and position, by job id
    amThreads,     \* AgentManager.threads: thread id -> handle
    nextTemp,      \* how many placeholder ids startThread has minted
    clients,       \* SSEManager.clients: client id -> registered channel (0: none)
    channelOf,     \* channel -> the client id it was opened for
    chanOpen,      \* the channels whose connection is open
    nextChan,      \* how many channels were opened
    frames,        \* channel -> the frames written on it, in order
    threadRows,    \* table threads: id -> row
    threadEventsTbl, \* table thread_events, in insertion (autoincrement id) order
    now,           \* the clock
    dbFails,       \* persistence operations that have thrown
    writeFails,    \* channel writes that have thrown
    hist,          \* per job: the sendToClient / appendEvent calls it made, in order
    resp,          \* the last POST /chat request and its response
    nStops,        \* how many stop requests were served
    yielded,       \* per job: the events its runtime stream has yielded, in order
    dashboards,    \* table dashboards: dashboard id -> row
    nextDash,      \* how many dashboard ids were generated
    plots,         \* table dashboard_plots: plot id -> row
    nextPlot,      \* how many plot ids were generated
    dashResp,      \* the outcome of the last DashboardStore call
    knowledge,     \* table agent_knowledge, in insertion (autoincrement id) order
    knowResp,      \* the last saveKnowledgeEntries call and what it returned
    storeResp,     \* the last ThreadStore call made directly, and its outcome
    sendResp,      \* the last sendToClient call made directly, and what it returned
    cleaned,       \* the sweeps run so far, and what the last cleanupInactiveThreads returned
    httpResp,      \* the last response of a dashboard route
    dashCalls,     \* the DashboardStore calls in flight: where each one is suspended
    storeCalls     \* the KnowledgeStore and ThreadStore calls in flight, likewise

\* chatVars: all that the dashboard store leaves alone; dashVars: all that the chat
\* server's handlers leave alone.
libVars == <<knowledge, knowResp, storeResp, sendResp, cleaned, dashCalls, storeCalls>>
chatVars == <<jobObj, jobs, proc, amThreads, nextTemp, clients, channelOf, chanOpen,
              nextChan, frames, threadRows, threadEventsTbl, now, dbFails, writeFails,
              hist, resp, nStops, yielded, libVars>>
dashVars == <<dashboards, nextDash, plots, nextPlot, dashResp, httpResp, libVars>>
vars == <<jobObj, jobs, proc, amThreads, nextTemp, clients, channelOf, chanOpen,
          nextChan, frames, threadRows, threadEventsTbl, now, dbFails, writeFails,
          hist, resp, nStops, yielded, dashboards, nextDash, plots, nextPlot, dashResp,
          knowledge, knowResp, storeResp, sendResp, cleaned, httpResp, dashCalls, storeCalls>>

\* --------------------------------------------------------------- map helpers
MapSet(m, k, v) == [x \in DOMAIN m \cup {k} |-> IF x = k THEN v ELSE m[x]]
MapDel(m, k) == [x \in DOMAIN m \ {k} |-> m[x]]

NoJob == [clientId |-> "", agentType |-> "", threadId |-> NoId, status |-> "none",
          startTime |-> 0, endTime |-> -1, error |-> Nil]
NoProc == [pc |-> "none", message |-> "", actualThreadId |-> NoId,
           threadMetadataPersisted |-> FALSE, userEventPersisted |-> FALSE,
           event |-> NoEvent, consumed |-> 0, after |-> "none", pending |-> Nil]

NoRequest == [clientId |-> "", agentType |-> "", message |-> "", threadId |-> NoId]

ChatInit ==
    /\ jobObj = [j \in JobIds |-> NoJob]
    /\ jobs = {}
    /\ proc = [j \in JobIds |-> NoProc]
    /\ amThreads = <<>>
    /\ nextTemp = 0
    /\ clients = [c \in ClientIds |-> 0]
    /\ channelOf = [ch \in ChannelIds |-> ""]
    /\ chanOpen = {}
    /\ nextChan = 0
    /\ frames = [ch \in ChannelIds |-> <<>>]
    /\ threadRows = <<>>
    /\ threadEventsTbl = <<>>
    /\ now = 0
    /\ dbFails = 0
    /\ writeFails = 0
    /\ hist = [j \in JobIds |-> <<>>]
    /\ resp = [status |-> 0, jobId |-> 0, jobStatus |-> Nil, req |-> NoRequest]
    /\ nStops = 0
    /\ yielded = [j \in JobIds |-> <<>>]

DashInit0 ==
    /\ dashboards = <<>>
    /\ nextDash = 0
    /\ plots = <<>>
    /\ nextPlot = 0
    /\ dashResp = [op |-> "none", arg |-> 0, result |-> "none"]

\* No dashboard route has answered yet.
NoResponse == [route |-> "none", status |-> 0, error |-> Nil, maxPlots |-> -1]

\* A DashboardStore call that has not started.
CallIds == 1..MaxCalls
NoCall == [pc |-> "none", dashboardId |-> 0, plotId |-> 0, result |-> Nil]

\* A KnowledgeStore or ThreadStore call that has not started.
NoStoreCall == [pc |-> "none"]

KnowInit ==
    /\ knowledge = <<>>
    /\ knowResp = [entries |-> <<>>, saved |-> 0, duplicates |-> 0]
    /\ storeResp = [op |-> "none"]
    /\ sendResp = [n |-> 0]
    /\ cleaned = [n |-> 0, removed |-> 0]
    /\ httpResp = NoResponse
    /\ dashCalls = [c \in CallIds |-> NoCall]
    /\ storeCalls = [c \in CallIds |-> NoStoreCall]

Init == ChatInit /\ DashInit0 /\ KnowInit


\* =================================================================== SSEManager
\* The broker's mutable state, threaded through the sends of one segment.
Broker == [clients |-> clients, frames |-> frames, writeFails |-> writeFails]

\* Variant: a client counts as connected once a channel was ever opened for it.
isClientConnected_Ever(clientId) ==
    clientId \in ClientIds /\ \E ch \in ChannelIds : channelOf[ch] = clientId

isClientConnected(clientId) == clientId \in ClientIds /\ clients[clientId] # 0

\* Variant: a failed write leaves the client registered.
sendToClient_KeepsOnThrow(b, clientId, data, writeThrows) ==
    IF clientId \in ClientIds /\ b.clients[clientId] # 0
    THEN IF writeThrows
         THEN [b EXCEPT !.writeFails = @ + 1]
         ELSE [b EXCEPT !.frames[b.clients[clientId]] = Append(@, JSONStringify(data))]
    ELSE b

\* sendToClient(clientId, data): writes the frame on the registered channel; a write
\* that throws deregisters the client; an unregistered client gets nothing.
sendToClient(b, clientId, data, writeThrows) ==
    IF clientId \in ClientIds /\ b.clients[clientId] # 0
    THEN IF writeThrows
         THEN [b EXCEPT !.clients[clientId] = 0, !.writeFails = @ + 1]
         ELSE [b EXCEPT !.frames[b.clients[clientId]] = Append(@, JSONStringify(data))]
    ELSE b

\* What sendToClient returns: false for an unknown client and for a write that
\* threw, true after the write.
sendToClientReturns(b, clientId, writeThrows) ==
    IF clientId \in ClientIds /\ b.clients[clientId] # 0
    THEN ~writeThrows
    ELSE FALSE

\* Whether a write may throw in this state (the fault budget).
MayThrow(b, clientId, writeThrows) ==
    writeThrows => (b.writeFails < MaxWriteFail /\ clientId \in ClientIds
                    /\ b.clients[clientId] # 0)

\* removeClient(clientId)
removeClient(cl, clientId) == [cl EXCEPT ![clientId] = 0]

\* Variant: the channel is registered without the acknowledgement.
AddClient_Silent(c) ==
    /\ nextChan < MaxChannels
    /\ LET ch == nextChan + 1
       IN /\ nextChan' = ch
          /\ channelOf' = [channelOf EXCEPT ![ch] = c]
          /\ chanOpen' = chanOpen \cup {ch}
          /\ clients' = [clients EXCEPT ![c] = ch]
          /\ frames' = frames
    /\ UNCHANGED <<jobObj, jobs, proc, amThreads, nextTemp, threadRows, threadEventsTbl,
                   now, dbFails, writeFails, hist, resp, nStops, yielded, dashVars>>

\* GET /stream/:clientId -> addClient: register the channel, send `connected`.
AddClient(c) ==
    /\ nextChan < MaxChannels
    /\ LET ch == nextChan + 1
           b0 == [Broker EXCEPT !.clients[c] = ch]
           b1 == sendToClient(b0, c, connectedFrame(c), FALSE)
       IN /\ nextChan' = ch
          /\ channelOf' = [channelOf EXCEPT ![ch] = c]
          /\ chanOpen' = chanOpen \cup {ch}
          /\ clients' = b1.clients
          /\ frames' = b1.frames
    /\ UNCHANGED <<jobObj, jobs, proc, amThreads, nextTemp, threadRows, threadEventsTbl,
                   now, dbFails, writeFails, hist, resp, nStops, yielded, dashVars>>

\* sendToClient called directly: the n-th call sends an event numbered n.
SendDirect(clientId, writeThrows) ==
    /\ sendResp.n < MaxSends
    /\ MayThrow(Broker, clientId, writeThrows)
    /\ LET n == sendResp.n + 1
           data == [type |-> "direct", n |-> n]
           b1 == sendToClient(Broker, clientId, data, writeThrows)
       IN /\ clients' = b1.clients
          /\ frames' = b1.frames
          /\ writeFails' = b1.writeFails
          /\ sendResp' = [n |-> n, clientId |-> clientId,
                          result |-> sendToClientReturns(Broker, clientId, writeThrows)]
    /\ UNCHANGED <<jobObj, jobs, proc, amThreads, nextTemp, channelOf, chanOpen, nextChan,
                   threadRows, threadEventsTbl, now, dbFails, hist, resp, nStops, yielded,
                   dashboards, nextDash, plots, nextPlot, dashResp, knowledge, knowResp,
                   storeResp, cleaned, httpResp, dashCalls, storeCalls>>

\* The 'close' handler of a channel's response: removeClient(clientId).
CloseChannel(ch) ==
    /\ ch \in chanOpen
    /\ chanOpen' = chanOpen \ {ch}
    /\ clients' = removeClient(clients, channelOf[ch])
    /\ UNCHANGED <<jobObj, jobs, proc, amThreads, nextTemp, channelOf, nextChan, frames,
                   threadRows, threadEventsTbl, now, dbFails, writeFails, hist, resp,
                   nStops, yielded, dashVars>>

\* ================================================================== ThreadStore
\* Variant: an update keeps the stored agentType.
upsertThread_KeepsAgent(rows, p, t) ==
    IF p.id \in DOMAIN rows
    THEN LET existingRow == rows[p.id]
             resolvedTitle == IF existingRow.title = Nil \/ existingRow.title = ""
                              THEN p.title ELSE existingRow.title
         IN MapSet(rows, p.id,
              [agentType |-> existingRow.agentType,
               title |-> resolvedTitle,
               lastUserMessage |-> IF p.lastUserMessage = Nil
                                   THEN existingRow.lastUserMessage ELSE p.lastUserMessage,
               lastAgentMessage |-> IF p.lastAgentMessage = Nil
                                    THEN existingRow.lastAgentMessage ELSE p.lastAgentMessage,
               lastClientId |-> IF p.lastClientId = Nil
                                THEN existingRow.lastClientId ELSE p.lastClientId,
               createdAt |-> existingRow.createdAt,
               updatedAt |-> t])
    ELSE MapSet(rows, p.id,
              [agentType |-> p.agentType, title |-> p.title,
               lastUserMessage |-> p.lastUserMessage,
               lastAgentMessage |-> p.lastAgentMessage,
               lastClientId |-> p.lastClientId,
               createdAt |-> t, updatedAt |-> t])

\* upsertThread(payload): insert, or update with a sticky title.
upsertThread(rows, p, t) ==
    IF p.id \in DOMAIN rows
    THEN LET existingRow == rows[p.id]
             resolvedTitle == IF existingRow.title = Nil \/ existingRow.title = ""
                              THEN p.title ELSE existingRow.title
         IN MapSet(rows, p.id,
              [agentType |-> p.agentType,
               title |-> resolvedTitle,
               lastUserMessage |-> IF p.lastUserMessage = Nil
                                   THEN existingRow.lastUserMessage ELSE p.lastUserMessage,
               lastAgentMessage |-> IF p.lastAgentMessage = Nil
                                    THEN existingRow.lastAgentMessage ELSE p.lastAgentMessage,
               lastClientId |-> IF p.lastClientId = Nil
                                THEN existingRow.lastClientId ELSE p.lastClientId,
               createdAt |-> existingRow.createdAt,
               updatedAt |-> t])
    ELSE MapSet(rows, p.id,
              [agentType |-> p.agentType, title |-> p.title,
               lastUserMessage |-> p.lastUserMessage,
               lastAgentMessage |-> p.lastAgentMessage,
               lastClientId |-> p.lastClientId,
               createdAt |-> t, updatedAt |-> t])

\* Variant: lastAgentMessage is written only while the row has none.
updateThreadMeta_FirstMessage(rows, threadId, updates, t) ==
    IF threadId = NoId \/ threadId \notin DOMAIN rows
    THEN rows
    ELSE LET old == rows[threadId]
         IN [rows EXCEPT ![threadId] =
              [old EXCEPT
                 !.title = IF updates.title # Nil THEN updates.title ELSE @,
                 !.lastUserMessage = IF updates.lastUserMessage # Nil
                                     THEN updates.lastUserMessage ELSE @,
                 !.lastAgentMessage = IF updates.lastAgentMessage # Nil /\ @ = Nil
                                      THEN updates.lastAgentMessage ELSE @,
                 !.lastClientId = IF updates.lastClientId # Nil
                                  THEN updates.lastClientId ELSE @,
                 !.updatedAt = t]]

\* updateThreadMeta(threadId, updates): UPDATE ... WHERE id = threadId, of the fields
\* of updates that are strings; nothing when there is none.
NoMeta == [title |-> Nil, lastUserMessage |-> Nil, lastAgentMessage |-> Nil,
           lastClientId |-> Nil]
updateThreadMeta(rows, threadId, updates, t) ==
    IF threadId = NoId \/ updates = NoMeta \/ threadId \notin DOMAIN rows
    THEN rows
    ELSE LET old == rows[threadId]
         IN [rows EXCEPT ![threadId] =
              [old EXCEPT
                 !.title = IF updates.title # Nil THEN updates.title ELSE @,
                 !.lastUserMessage = IF updates.lastUserMessage # Nil
                                     THEN updates.lastUserMessage ELSE @,
                 !.lastAgentMessage = IF updates.lastAgentMessage # Nil
                                      THEN updates.lastAgentMessage ELSE @,
                 !.lastClientId = IF updates.lastClientId # Nil
                                  THEN updates.lastClientId ELSE @,
                 !.updatedAt = t]]

\* Variant: a row replaces the thread's last row when another job wrote that one.
appendEvent_Overwrites(tbl, threadId, jobId, event, t) ==
    LET row == [threadId |-> threadId, jobId |-> jobId, eventType |-> event.type,
                eventPayload |-> JSONStringify(event), createdAt |-> t]
    IN IF threadId = NoId THEN tbl
       ELSE IF tbl # <<>> /\ tbl[Len(tbl)].threadId = threadId /\ tbl[Len(tbl)].jobId # jobId
       THEN [tbl EXCEPT ![Len(tbl)] = row]
       ELSE Append(tbl, row)

\* Variant: the new row goes in front of the table.
appendEvent_Front(tbl, threadId, jobId, event, t) ==
    IF threadId = NoId THEN tbl
    ELSE <<[threadId |-> threadId, jobId |-> jobId, eventType |-> event.type,
            eventPayload |-> JSONStringify(event), createdAt |-> t]>> \o tbl

\* appendEvent(threadId, jobId, event): INSERT INTO thread_events.
appendEvent(tbl, threadId, jobId, event, t) ==
    IF threadId = NoId THEN tbl
    ELSE Append(tbl, [threadId |-> threadId, jobId |-> jobId, eventType |-> event.type,
                      eventPayload |-> JSONStringify(event), createdAt |-> t])

\* Variant: the thread's rows by descending id.
RECURSIVE getThreadEventsFrom_Desc(_, _)
getThreadEventsFrom_Desc(tbl, threadId) ==
    IF tbl = <<>> THEN <<>>
    ELSE LET rest == getThreadEventsFrom_Desc(Tail(tbl), threadId)
         IN IF Head(tbl).threadId = threadId
            THEN rest \o <<JSONParse(Head(tbl).eventPayload)>>
            ELSE rest

\* getThreadEvents(threadId): the thread's rows by ascending id, payloads parsed.
RECURSIVE getThreadEventsFrom(_, _)
getThreadEventsFrom(tbl, threadId) ==
    IF tbl = <<>> THEN <<>>
    ELSE LET rest == getThreadEventsFrom(Tail(tbl), threadId)
         IN IF Head(tbl).threadId = threadId
            THEN <<JSONParse(Head(tbl).eventPayload)>> \o rest
            ELSE rest
getThreadEvents(threadId) == getThreadEventsFrom(threadEventsTbl, threadId)

\* Whether a persistence operation may throw here: a database fault (budgeted), or
\* an insert into thread_events naming a thread with no row (the foreign key, when
\* the engine enforces it).
DbMayThrow(dbThrows) == dbThrows => dbFails < MaxDbFail
AppendMayThrow(threadId, dbThrows) ==
    dbThrows => (dbFails < MaxDbFail \/ threadId \notin DOMAIN threadRows)


\* ------------------------------------------------ ThreadStore, called directly
StoreAgents == {"chat", "sql"}
StoreTitles == {Nil, "A", "B"}
StoreEvents == {[type |-> "e1"], [type |-> "e2"]}
StoreMetas == {[NoMeta EXCEPT !.title = ti, !.lastAgentMessage = m] :
                  ti \in {Nil, "B"}, m \in {Nil, "m"}}
StoreUnchanged ==
    UNCHANGED <<jobObj, jobs, proc, amThreads, nextTemp, clients, channelOf, chanOpen,
                nextChan, frames, now, dbFails, writeFails, hist, resp, nStops, yielded,
                dashboards, nextDash, plots, nextPlot, dashResp, knowledge, knowResp,
                sendResp, cleaned, httpResp, dashCalls, storeCalls>>

StoreUpsert(id, agentType, title) ==
    /\ threadRows' = upsertThread(threadRows,
                        [id |-> id, agentType |-> agentType, title |-> title,
                         lastUserMessage |-> Nil, lastAgentMessage |-> Nil,
                         lastClientId |-> Nil], now)
    /\ storeResp' = [op |-> "upsertThread", id |-> id, agentType |-> agentType,
                     title |-> title]
    /\ UNCHANGED threadEventsTbl
    /\ StoreUnchanged

\* upsertThread with any payload on one thread, each optional field given or left
\* out, and with one payload on the other threads.
UpsertPayloads ==
    [id : {<<"th", 1>>}, agentType : StoreAgents, title : {Nil, "A"},
     lastUserMessage : {Nil, "u1", "u2"}, lastAgentMessage : {Nil, "m1"},
     lastClientId : {Nil, "a"}]
    \cup [id : CanonIds \ {<<"th", 1>>}, agentType : {"chat"}, title : {"B"},
          lastUserMessage : {"u1"}, lastAgentMessage : {Nil}, lastClientId : {"a"}]
StoreUpsertPayload(p) ==
    /\ threadRows' = upsertThread(threadRows, p, now)
    /\ storeResp' = [op |-> "upsertThread", id |-> p.id, agentType |-> p.agentType,
                     title |-> p.title, payload |-> p]
    /\ UNCHANGED threadEventsTbl
    /\ StoreUnchanged

StoreUpdateMeta(id, updates) ==
    /\ threadRows' = updateThreadMeta(threadRows, id, updates, now)
    /\ storeResp' = [op |-> "updateThreadMeta", id |-> id, updates |-> updates]
    /\ UNCHANGED threadEventsTbl
    /\ StoreUnchanged

\* appendEvent; fkRejects is the engine refusing a row whose thread does not exist.
StoreAppend(id, jobId, event, fkRejects) ==
    /\ Len(threadEventsTbl) < MaxLog
    /\ fkRejects => (id # NoId /\ id \notin DOMAIN threadRows)
    /\ threadEventsTbl' = IF fkRejects THEN threadEventsTbl
                          ELSE appendEvent(threadEventsTbl, id, jobId, event, now)
    /\ storeResp' = [op |-> "appendEvent", id |-> id, event |-> event,
                     result |-> IF fkRejects THEN ForeignKeyError ELSE "ok"]
    /\ UNCHANGED threadRows
    /\ StoreUnchanged


\* ================================================================= AgentManager
\* getAgent(agentType) throws for a profile that was not loaded.
AgentKnown(agentType) == agentType \in LoadedAgents

newHandle(agentType, t) == [agentType |-> agentType, lastActivity |-> t]

\* startThread(agentType): mint a placeholder id and register a handle under it.
startThread(reg, agentType, n, t) == MapSet(reg, TempId(n + 1), newHandle(agentType, t))

\* resumeThread(agentType, threadId), when the runtime accepts the id.
resumeThread(reg, agentType, threadId, t) == MapSet(reg, threadId, newHandle(agentType, t))

\* updateThreadActivity(threadId)
updateThreadActivity(reg, threadId, t) ==
    IF threadId \in DOMAIN reg THEN [reg EXCEPT ![threadId].lastActivity = t] ELSE reg

\* updateThreadId(old, new): move the handle registered under old to new.
updateThreadId(reg, old, new) ==
    IF old \in DOMAIN reg THEN MapSet(MapDel(reg, old), new, reg[old]) ELSE reg

\* ================================================================== POST /chat
NextJobId == CHOOSE j \in JobIds : jobObj[j].status = "none"
                                   /\ \A k \in JobIds : k < j => jobObj[k].status # "none"

\* threadId of a request: none, a canonical id, a placeholder id the client made up
\* or one it read from GET /threads.
ThreadInputs == {NoId} \cup CanonIds \cup {TempId(0)} \cup DOMAIN amThreads

Submit(clientId, agentType, message, threadId) ==
    LET req == [clientId |-> clientId, agentType |-> agentType, message |-> message,
                threadId |-> threadId]
    IN
    /\ IF clientId = "" \/ agentType = "" \/ message = ""
       THEN /\ resp' = [status |-> 400, jobId |-> 0, jobStatus |-> Nil, req |-> req]
            /\ UNCHANGED <<jobObj, jobs, proc>>
       ELSE IF ~isClientConnected(clientId)
       THEN /\ resp' = [status |-> 400, jobId |-> 0, jobStatus |-> Nil, req |-> req]
            /\ UNCHANGED <<jobObj, jobs, proc>>
       ELSE /\ \E j \in JobIds : jobObj[j].status = "none"
            /\ LET jobId == NextJobId
                   jobInfo == [clientId |-> clientId, agentType |-> agentType,
                               threadId |-> threadId, status |-> "queued",
                               startTime |-> now, endTime |-> -1, error |-> Nil]
               IN /\ jobObj' = [jobObj EXCEPT ![jobId] = jobInfo]
                  /\ jobs' = jobs \cup {jobId}
                  /\ proc' = [proc EXCEPT ![jobId] =
                        [NoProc EXCEPT !.pc = "queued", !.message = message]]
                  /\ resp' = [status |-> 200, jobId |-> jobId,
                              jobStatus |-> jobInfo.status, req |-> req]
    /\ UNCHANGED <<amThreads, nextTemp, clients, channelOf, chanOpen, nextChan, frames,
                   threadRows, threadEventsTbl, now, dbFails, writeFails, hist, nStops,
                   yielded, dashVars>>

\* Variant: the stop request also ends the job's processChat.
Stop_Cancels(j) ==
    /\ j \in jobs
    /\ nStops < MaxStops
    /\ nStops' = nStops + 1
    /\ LET b == sendToClient(Broker, jobObj[j].clientId, jobStoppedFrame(j), FALSE)
       IN /\ jobObj' = [jobObj EXCEPT ![j].status = "completed", ![j].endTime = now]
          /\ clients' = b.clients
          /\ frames' = b.frames
    /\ proc' = [proc EXCEPT ![j].pc = "done"]
    /\ UNCHANGED <<jobs, amThreads, nextTemp, channelOf, chanOpen, nextChan,
                   threadRows, threadEventsTbl, now, dbFails, writeFails, hist, resp,
                   yielded, dashVars>>

\* POST /stop/:jobId
Stop(j) ==
    /\ j \in jobs
    /\ nStops < MaxStops
    /\ nStops' = nStops + 1
    /\ LET b == sendToClient(Broker, jobObj[j].clientId, jobStoppedFrame(j), FALSE)
       IN /\ jobObj' = [jobObj EXCEPT ![j].status = "completed", ![j].endTime = now]
          /\ clients' = b.clients
          /\ frames' = b.frames
    /\ UNCHANGED <<jobs, proc, amThreads, nextTemp, channelOf, chanOpen, nextChan,
                   threadRows, threadEventsTbl, now, dbFails, writeFails, hist, resp,
                   yielded, dashVars>>

\* Variant: the catch block persists the error event under any thread id.
CatchBlock_AnyId(j, job, err, writeThrows) ==
    LET ev == errorEvent(j, err)
        b == sendToClient(Broker, job.clientId, ev, writeThrows)
        persist == job.threadId # NoId
    IN /\ MayThrow(Broker, job.clientId, writeThrows)
       /\ jobObj' = [jobObj EXCEPT ![j] =
                        [job EXCEPT !.status = "error", !.endTime = now, !.error = err]]
       /\ clients' = b.clients
       /\ frames' = b.frames
       /\ writeFails' = b.writeFails
       /\ hist' = [hist EXCEPT ![j] = Append(@, [op |-> "send", data |-> ev])]
       /\ proc' = [proc EXCEPT ![j].pc = IF persist THEN "appendError" ELSE "done",
                               ![j].pending = ev]

\* ================================================================== processChat
\* The catch block: mark the job errored, send the error event, and go on to persist
\* it when the job's thread id is not a placeholder.  `job` is the job object as the
\* try block left it.
CatchBlock(j, job, err, writeThrows) ==
    LET ev == errorEvent(j, err)
        b == sendToClient(Broker, job.clientId, ev, writeThrows)
        persist == job.threadId # NoId /\ ~isTemporaryThreadId(job.threadId)
    IN /\ MayThrow(Broker, job.clientId, writeThrows)
       /\ jobObj' = [jobObj EXCEPT ![j] =
                        [job EXCEPT !.status = "error", !.endTime = now, !.error = err]]
       /\ clients' = b.clients
       /\ frames' = b.frames
       /\ writeFails' = b.writeFails
       /\ hist' = [hist EXCEPT ![j] = Append(@, [op |-> "send", data |-> ev])]
       /\ proc' = [proc EXCEPT ![j].pc = IF persist THEN "appendError" ELSE "done",
                               ![j].pending = ev]

\* Variant: a failing resumeThread is not caught and reaches the catch block.
ProcessStart_NoFallback(j, resumeThrows, writeThrows) ==
    /\ proc[j].pc = "queued"
    /\ LET job == [jobObj[j] EXCEPT !.status = "processing"]
           reuse == job.threadId # NoId /\ job.threadId \in DOMAIN amThreads
           resume == job.threadId # NoId /\ ~reuse /\ AgentKnown(job.agentType)
                     /\ ~resumeThrows
       IN /\ (resumeThrows => (job.threadId # NoId /\ ~reuse /\ AgentKnown(job.agentType)))
          /\ IF reuse \/ resume
             THEN /\ ~writeThrows
                  /\ amThreads' = IF reuse THEN amThreads
                                  ELSE resumeThread(amThreads, job.agentType, job.threadId, now)
                  /\ jobObj' = [jobObj EXCEPT ![j] = job]
                  /\ proc' = [proc EXCEPT ![j].actualThreadId = job.threadId,
                                          ![j].pc = IF isTemporaryThreadId(job.threadId)
                                                    THEN "run" ELSE "upsert"]
                  /\ UNCHANGED <<nextTemp, clients, frames, writeFails, hist>>
             ELSE IF AgentKnown(job.agentType) /\ ~resumeThrows
             THEN /\ ~writeThrows
                  /\ amThreads' = startThread(amThreads, job.agentType, nextTemp, now)
                  /\ nextTemp' = nextTemp + 1
                  /\ jobObj' = [jobObj EXCEPT ![j] = [job EXCEPT !.threadId = TempId(nextTemp + 1)]]
                  /\ proc' = [proc EXCEPT ![j].actualThreadId = TempId(nextTemp + 1),
                                          ![j].pc = IF isTemporaryThreadId(TempId(nextTemp + 1))
                                                    THEN "run" ELSE "upsert"]
                  /\ UNCHANGED <<clients, frames, writeFails, hist>>
             ELSE /\ CatchBlock(j, job, IF resumeThrows THEN "resume failed"
                                        ELSE "Agent not found", writeThrows)
                  /\ UNCHANGED <<amThreads, nextTemp>>
    /\ UNCHANGED <<jobs, channelOf, chanOpen, nextChan, threadRows, threadEventsTbl, now,
                   dbFails, resp, nStops, yielded, dashVars>>

\* Start of processChat up to its first await: status, thread resolution.
ProcessStart(j, resumeThrows, writeThrows) ==
    /\ proc[j].pc = "queued"
    /\ LET job == [jobObj[j] EXCEPT !.status = "processing"]
           reuse == job.threadId # NoId /\ job.threadId \in DOMAIN amThreads
           resume == job.threadId # NoId /\ ~reuse /\ AgentKnown(job.agentType)
                     /\ ~resumeThrows
       IN /\ (resumeThrows => (job.threadId # NoId /\ ~reuse /\ AgentKnown(job.agentType)))
          /\ IF reuse \/ resume
             THEN /\ ~writeThrows
                  /\ amThreads' = IF reuse THEN amThreads
                                  ELSE resumeThread(amThreads, job.agentType, job.threadId, now)
                  /\ jobObj' = [jobObj EXCEPT ![j] = job]
                  /\ proc' = [proc EXCEPT ![j].actualThreadId = job.threadId,
                                          ![j].pc = IF isTemporaryThreadId(job.threadId)
                                                    THEN "run" ELSE "upsert"]
                  /\ UNCHANGED <<nextTemp, clients, frames, writeFails, hist>>
             ELSE IF AgentKnown(job.agentType)
             THEN /\ ~writeThrows
                  /\ amThreads' = startThread(amThreads, job.agentType, nextTemp, now)
                  /\ nextTemp' = nextTemp + 1
                  /\ jobObj' = [jobObj EXCEPT ![j] = [job EXCEPT !.threadId = TempId(nextTemp + 1)]]
                  /\ proc' = [proc EXCEPT ![j].actualThreadId = TempId(nextTemp + 1),
                                          ![j].pc = IF isTemporaryThreadId(TempId(nextTemp + 1))
                                                    THEN "run" ELSE "upsert"]
                  /\ UNCHANGED <<clients, frames, writeFails, hist>>
             ELSE /\ CatchBlock(j, job, "Agent not found", writeThrows)
                  /\ UNCHANGED <<amThreads, nextTemp>>
    /\ UNCHANGED <<jobs, channelOf, chanOpen, nextChan, threadRows, threadEventsTbl, now,
                   dbFails, resp, nStops, yielded, dashVars>>


\* The payload both persistence paths hand to upsertThread.
upsertPayload(job, tid, message) ==
    [id |-> tid, agentType |-> job.agentType, title |-> message,
     lastUserMessage |-> message, lastAgentMessage |-> Nil, lastClientId |-> job.clientId]

\* Shared by the eager path and the reconciliation path, from the upsert to the send
\* of the user-message event: upsert the thread row (a throw is swallowed), set
\* threadMetadataPersisted, send thread_info, run ensureUserEventPersisted up to its
\* append.  pr is the job's locals with actualThreadId settled; `after` is where the
\* job goes on once the user-message event is dealt with.  wt numbers the send that
\* throws (0: none).
PersistAndAnnounce(j, job, pr, tid, after, dbThrows, wt) ==
    LET info == threadInfoFrame(j, tid, job.agentType)
        b1 == sendToClient(Broker, job.clientId, info, wt = 1)
        ensure == ~pr.userEventPersisted /\ pr.actualThreadId # NoId
                  /\ ~isTemporaryThreadId(pr.actualThreadId)
        uev == userEvent(j, job.agentType, pr.actualThreadId, pr.message)
        b2 == IF ensure THEN sendToClient(b1, job.clientId, uev, wt = 2) ELSE b1
    IN /\ DbMayThrow(dbThrows)
       /\ MayThrow(Broker, job.clientId, wt = 1)
       /\ MayThrow(b1, job.clientId, wt = 2)
       /\ (wt = 2 => ensure)
       /\ threadRows' = IF dbThrows THEN threadRows
                        ELSE upsertThread(threadRows, upsertPayload(job, tid, pr.message), now)
       /\ dbFails' = IF dbThrows THEN dbFails + 1 ELSE dbFails
       /\ clients' = b2.clients
       /\ frames' = b2.frames
       /\ writeFails' = b2.writeFails
       /\ hist' = [hist EXCEPT ![j] =
             IF ensure
             THEN @ \o <<[op |-> "send", data |-> info], [op |-> "send", data |-> uev]>>
             ELSE Append(@, [op |-> "send", data |-> info])]
       /\ proc' = [proc EXCEPT ![j] =
             [pr EXCEPT !.threadMetadataPersisted = TRUE,
                        !.after = after,
                        !.pending = IF ensure THEN uev ELSE Nil,
                        !.pc = IF ensure THEN "appendUser" ELSE after]]

\* Eager persistence: the resolved id is already canonical.
EagerPersist(j, dbThrows, wt) ==
    /\ proc[j].pc = "upsert"
    /\ PersistAndAnnounce(j, jobObj[j], proc[j], proc[j].actualThreadId, "run", dbThrows, wt)
    /\ UNCHANGED <<jobObj, jobs, amThreads, nextTemp, channelOf, chanOpen, nextChan,
                   threadEventsTbl, now, resp, nStops, yielded, dashVars>>

\* Variant: the user-message event is sent but never stored.
AppendUser_Skips(j, dbThrows) ==
    /\ proc[j].pc = "appendUser"
    /\ AppendMayThrow(proc[j].pending.threadId, dbThrows)
    /\ dbFails' = IF dbThrows /\ proc[j].pending.threadId \in DOMAIN threadRows
                  THEN dbFails + 1 ELSE dbFails
    /\ hist' = [hist EXCEPT ![j] = Append(@, [op |-> "append", data |-> proc[j].pending])]
    /\ proc' = [proc EXCEPT ![j].userEventPersisted = TRUE, ![j].pc = proc[j].after,
                            ![j].pending = Nil]
    /\ UNCHANGED <<jobObj, jobs, amThreads, nextTemp, clients, channelOf, chanOpen,
                   nextChan, frames, threadRows, threadEventsTbl, now, writeFails, resp,
                   nStops, yielded, dashVars>>

\* persistUserMessageEvent's append, then userEventPersisted = true.
AppendUser(j, dbThrows) ==
    /\ proc[j].pc = "appendUser"
    /\ AppendMayThrow(proc[j].pending.threadId, dbThrows)
    /\ threadEventsTbl' = IF dbThrows THEN threadEventsTbl
                          ELSE appendEvent(threadEventsTbl, proc[j].pending.threadId, j,
                                           proc[j].pending, now)
    /\ dbFails' = IF dbThrows /\ proc[j].pending.threadId \in DOMAIN threadRows
                  THEN dbFails + 1 ELSE dbFails
    /\ hist' = [hist EXCEPT ![j] = Append(@, [op |-> "append", data |-> proc[j].pending])]
    /\ proc' = [proc EXCEPT ![j].userEventPersisted = TRUE, ![j].pc = proc[j].after,
                            ![j].pending = Nil]
    /\ UNCHANGED <<jobObj, jobs, amThreads, nextTemp, clients, channelOf, chanOpen,
                   nextChan, frames, threadRows, now, writeFails, resp, nStops, yielded, dashVars>>

\* await thread.runStreamed(message, options)
RunStreamed(j, runThrows, writeThrows) ==
    /\ proc[j].pc = "run"
    /\ IF runThrows
       THEN CatchBlock(j, jobObj[j], "run failed", writeThrows)
       ELSE /\ ~writeThrows
            /\ proc' = [proc EXCEPT ![j].pc = "stream"]
            /\ UNCHANGED <<jobObj, clients, frames, writeFails, hist>>
    /\ UNCHANGED <<jobs, amThreads, nextTemp, channelOf, chanOpen, nextChan, threadRows,
                   threadEventsTbl, now, dbFails, resp, nStops, yielded, dashVars>>

\* Variant: the loop body appends every relayed event, persisted metadata or not.
RelayBody_AlwaysAppends(j, pr, reg, writeThrows) ==
    IF pr.actualThreadId = NoId
    THEN /\ ~writeThrows
         /\ proc' = [proc EXCEPT ![j] = [pr EXCEPT !.pc = "stream"]]
         /\ amThreads' = reg
         /\ UNCHANGED <<clients, frames, writeFails, hist>>
    ELSE LET tev == transformedEvent(j, jobObj[j].agentType, pr.actualThreadId, pr.event)
             b == sendToClient(Broker, jobObj[j].clientId, tev, writeThrows)
         IN /\ MayThrow(Broker, jobObj[j].clientId, writeThrows)
            /\ clients' = b.clients
            /\ frames' = b.frames
            /\ writeFails' = b.writeFails
            /\ hist' = [hist EXCEPT ![j] = Append(@, [op |-> "send", data |-> tev])]
            /\ amThreads' = updateThreadActivity(reg, pr.actualThreadId, now)
            /\ proc' = [proc EXCEPT ![j] = [pr EXCEPT !.pending = tev, !.pc = "appendEvent"]]

\* Variant: the loop body hands the event to the append without sending it first.
RelayBody_Unsent(j, pr, reg, writeThrows) ==
    IF pr.actualThreadId = NoId
    THEN /\ ~writeThrows
         /\ proc' = [proc EXCEPT ![j] = [pr EXCEPT !.pc = "stream"]]
         /\ amThreads' = reg
         /\ UNCHANGED <<clients, frames, writeFails, hist>>
    ELSE LET tev == transformedEvent(j, jobObj[j].agentType, pr.actualThreadId, pr.event)
         IN /\ ~writeThrows
            /\ UNCHANGED <<clients, frames, writeFails, hist>>
            /\ amThreads' = updateThreadActivity(reg, pr.actualThreadId, now)
            /\ proc' = [proc EXCEPT ![j] =
                  [pr EXCEPT !.pending = IF pr.threadMetadataPersisted THEN tev ELSE Nil,
                             !.pc = IF pr.threadMetadataPersisted
                                    THEN "appendEvent" ELSE "stream"]]

\* The loop body from "Transform and send event" to the await of the append.
RelayBody(j, pr, reg, writeThrows) ==
    IF pr.actualThreadId = NoId
    THEN /\ ~writeThrows
         /\ proc' = [proc EXCEPT ![j] = [pr EXCEPT !.pc = "stream"]]
         /\ amThreads' = reg
         /\ UNCHANGED <<clients, frames, writeFails, hist>>
    ELSE LET tev == transformedEvent(j, jobObj[j].agentType, pr.actualThreadId, pr.event)
             b == sendToClient(Broker, jobObj[j].clientId, tev, writeThrows)
         IN /\ MayThrow(Broker, jobObj[j].clientId, writeThrows)
            /\ clients' = b.clients
            /\ frames' = b.frames
            /\ writeFails' = b.writeFails
            /\ hist' = [hist EXCEPT ![j] = Append(@, [op |-> "send", data |-> tev])]
            /\ amThreads' = updateThreadActivity(reg, pr.actualThreadId, now)
            /\ proc' = [proc EXCEPT ![j] =
                  [pr EXCEPT !.pending = IF pr.threadMetadataPersisted THEN tev ELSE Nil,
                             !.pc = IF pr.threadMetadataPersisted
                                    THEN "appendEvent" ELSE "stream"]]

\* Variant: the loop reconciles on every thread.started event (no flag guard).
Reconciles_Unguarded(pr, e) ==
    e.type = "thread.started" /\ e.thread_id # NoId

\* Variant: a thread.started event naming another id than the job's re-keys the
\* job even after its metadata was persisted.
Reconciles_OnNewId(pr, e) ==
    /\ e.type = "thread.started" /\ e.thread_id # NoId
    /\ (~pr.threadMetadataPersisted \/ pr.actualThreadId # e.thread_id)

\* Whether this event makes the loop reconcile the thread identity.
Reconciles(pr, e) ==
    ~pr.threadMetadataPersisted /\ e.type = "thread.started" /\ e.thread_id # NoId

\* Variant: the reconciliation leaves job.threadId as it was.
NextEvent_KeepsJobThread(j, e, dbThrows, wt) ==
    /\ proc[j].pc = "stream"
    /\ proc[j].consumed < MaxStream
    /\ e.seq = proc[j].consumed + 1
    /\ yielded' = [yielded EXCEPT ![j] = Append(@, e)]
    /\ LET pr0 == [proc[j] EXCEPT !.event = e, !.consumed = @ + 1]
       IN IF Reconciles(pr0, e)
          THEN LET rekey == pr0.actualThreadId = NoId \/ pr0.actualThreadId # e.thread_id
                   pr1 == IF rekey THEN [pr0 EXCEPT !.actualThreadId = e.thread_id] ELSE pr0
                   job == jobObj[j]
               IN /\ amThreads' = IF rekey /\ pr0.actualThreadId # NoId
                                  THEN updateThreadId(amThreads, pr0.actualThreadId, e.thread_id)
                                  ELSE amThreads
                  /\ jobObj' = [jobObj EXCEPT ![j] = job]
                  /\ PersistAndAnnounce(j, job, pr1, e.thread_id, "relay", dbThrows, wt)
          ELSE /\ ~dbThrows /\ wt \in {0, 1}
               /\ RelayBody(j, pr0, amThreads, wt = 1)
               /\ UNCHANGED <<jobObj, threadRows, dbFails>>
    /\ UNCHANGED <<jobs, nextTemp, channelOf, chanOpen, nextChan, threadEventsTbl, now,
                   resp, nStops, dashVars>>

\* The stream yields its next event.
NextEvent(j, e, dbThrows, wt) ==
    /\ proc[j].pc = "stream"
    /\ proc[j].consumed < MaxStream
    /\ e.seq = proc[j].consumed + 1
    /\ yielded' = [yielded EXCEPT ![j] = Append(@, e)]
    /\ LET pr0 == [proc[j] EXCEPT !.event = e, !.consumed = @ + 1]
       IN IF Reconciles(pr0, e)
          THEN LET rekey == pr0.actualThreadId = NoId \/ pr0.actualThreadId # e.thread_id
                   pr1 == IF rekey THEN [pr0 EXCEPT !.actualThreadId = e.thread_id] ELSE pr0
                   job == IF rekey THEN [jobObj[j] EXCEPT !.threadId = e.thread_id]
                          ELSE jobObj[j]
               IN /\ amThreads' = IF rekey /\ pr0.actualThreadId # NoId
                                  THEN updateThreadId(amThreads, pr0.actualThreadId, e.thread_id)
                                  ELSE amThreads
                  /\ jobObj' = [jobObj EXCEPT ![j] = job]
                  /\ PersistAndAnnounce(j, job, pr1, e.thread_id, "relay", dbThrows, wt)
          ELSE /\ ~dbThrows /\ wt \in {0, 1}
               /\ RelayBody(j, pr0, amThreads, wt = 1)
               /\ UNCHANGED <<jobObj, threadRows, dbFails>>
    /\ UNCHANGED <<jobs, nextTemp, channelOf, chanOpen, nextChan, threadEventsTbl, now,
                   resp, nStops, dashVars>>

\* After reconciliation: relay the event that revealed the id.
Relay(j, writeThrows) ==
    /\ proc[j].pc = "relay"
    /\ RelayBody(j, proc[j], amThreads, writeThrows)
    /\ UNCHANGED <<jobObj, jobs, nextTemp, channelOf, chanOpen, nextChan, threadRows,
                   threadEventsTbl, now, dbFails, resp, nStops, yielded, dashVars>>

\* Whether the event is a completed agent message with text.
IsAgentMessage(e) == e.type = "item.completed" /\ e.text # Nil /\ e.text # ""

\* Variant: a throw of the append is not swallowed and reaches the catch block.
AppendEvent_Unsafe(j, dbThrows) ==
    /\ proc[j].pc = "appendEvent"
    /\ AppendMayThrow(proc[j].actualThreadId, dbThrows)
    /\ dbFails' = IF dbThrows /\ proc[j].actualThreadId \in DOMAIN threadRows
                  THEN dbFails + 1 ELSE dbFails
    /\ IF dbThrows
       THEN /\ CatchBlock(j, jobObj[j], "database error", FALSE)
            /\ UNCHANGED threadEventsTbl
       ELSE /\ threadEventsTbl' = appendEvent(threadEventsTbl, proc[j].actualThreadId, j,
                                              proc[j].pending, now)
            /\ hist' = [hist EXCEPT ![j] =
                           Append(@, [op |-> "append", data |-> proc[j].pending])]
            /\ proc' = [proc EXCEPT ![j].pending = Nil,
                                    ![j].pc = IF IsAgentMessage(proc[j].event)
                                              THEN "updateMeta" ELSE "stream"]
            /\ UNCHANGED <<jobObj, clients, frames, writeFails>>
    /\ UNCHANGED <<jobs, amThreads, nextTemp, channelOf, chanOpen, nextChan, threadRows,
                   now, resp, nStops, yielded, dashVars>>

\* The append of the relayed event.
AppendEvent(j, dbThrows) ==
    /\ proc[j].pc = "appendEvent"
    /\ AppendMayThrow(proc[j].actualThreadId, dbThrows)
    /\ threadEventsTbl' = IF dbThrows THEN threadEventsTbl
                          ELSE appendEvent(threadEventsTbl, proc[j].actualThreadId, j,
                                           proc[j].pending, now)
    /\ dbFails' = IF dbThrows /\ proc[j].actualThreadId \in DOMAIN threadRows
                  THEN dbFails + 1 ELSE dbFails
    /\ hist' = [hist EXCEPT ![j] = Append(@, [op |-> "append", data |-> proc[j].pending])]
    /\ proc' = [proc EXCEPT ![j].pending = Nil,
                            ![j].pc = IF IsAgentMessage(proc[j].event)
                                      THEN "updateMeta" ELSE "stream"]
    /\ UNCHANGED <<jobObj, jobs, amThreads, nextTemp, clients, channelOf, chanOpen,
                   nextChan, frames, threadRows, now, writeFails, resp, nStops, yielded, dashVars>>

\* The refresh of lastAgentMessage.
UpdateMeta(j, dbThrows) ==
    /\ proc[j].pc = "updateMeta"
    /\ DbMayThrow(dbThrows)
    /\ threadRows' = IF dbThrows THEN threadRows
                     ELSE updateThreadMeta(threadRows, proc[j].actualThreadId,
                             [NoMeta EXCEPT !.lastAgentMessage = proc[j].event.text], now)
    /\ dbFails' = IF dbThrows THEN dbFails + 1 ELSE dbFails
    /\ proc' = [proc EXCEPT ![j].pc = "stream"]
    /\ UNCHANGED <<jobObj, jobs, amThreads, nextTemp, clients, channelOf, chanOpen,
                   nextChan, frames, threadEventsTbl, now, writeFails, hist, resp,
                   nStops, yielded, dashVars>>

\* Variant: the completion event is persisted whenever the job has a thread id.
StreamEnd_AlwaysPersist(j, writeThrows) ==
    /\ proc[j].pc = "stream"
    /\ LET job == [jobObj[j] EXCEPT !.status = "completed", !.endTime = now]
           ev == completionEvent(j, proc[j].actualThreadId, job.endTime - job.startTime)
           b == sendToClient(Broker, job.clientId, ev, writeThrows)
           persist == proc[j].actualThreadId # NoId
       IN /\ MayThrow(Broker, job.clientId, writeThrows)
          /\ jobObj' = [jobObj EXCEPT ![j] = job]
          /\ clients' = b.clients
          /\ frames' = b.frames
          /\ writeFails' = b.writeFails
          /\ hist' = [hist EXCEPT ![j] = Append(@, [op |-> "send", data |-> ev])]
          /\ proc' = [proc EXCEPT ![j].pc = IF persist THEN "appendComplete" ELSE "done",
                                  ![j].pending = IF persist THEN ev ELSE Nil]
    /\ UNCHANGED <<jobs, amThreads, nextTemp, channelOf, chanOpen, nextChan, threadRows,
                   threadEventsTbl, now, dbFails, resp, nStops, yielded, dashVars>>

\* Variant: the completion event is persisted only when its send went through.
StreamEnd_IfDelivered(j, writeThrows) ==
    /\ proc[j].pc = "stream"
    /\ LET job == [jobObj[j] EXCEPT !.status = "completed", !.endTime = now]
           ev == completionEvent(j, proc[j].actualThreadId, job.endTime - job.startTime)
           b == sendToClient(Broker, job.clientId, ev, writeThrows)
           persist == /\ proc[j].threadMetadataPersisted /\ proc[j].actualThreadId # NoId
                      /\ sendToClientReturns(Broker, job.clientId, writeThrows)
       IN /\ MayThrow(Broker, job.clientId, writeThrows)
          /\ jobObj' = [jobObj EXCEPT ![j] = job]
          /\ clients' = b.clients
          /\ frames' = b.frames
          /\ writeFails' = b.writeFails
          /\ hist' = [hist EXCEPT ![j] = Append(@, [op |-> "send", data |-> ev])]
          /\ proc' = [proc EXCEPT ![j].pc = IF persist THEN "appendComplete" ELSE "done",
                                  ![j].pending = IF persist THEN ev ELSE Nil]
    /\ UNCHANGED <<jobs, amThreads, nextTemp, channelOf, chanOpen, nextChan, threadRows,
                   threadEventsTbl, now, dbFails, resp, nStops, yielded, dashVars>>

\* The stream is exhausted: mark the job completed and send job_complete.
StreamEnd(j, writeThrows) ==
    /\ proc[j].pc = "stream"
    /\ LET job == [jobObj[j] EXCEPT !.status = "completed", !.endTime = now]
           ev == completionEvent(j, proc[j].actualThreadId, job.endTime - job.startTime)
           b == sendToClient(Broker, job.clientId, ev, writeThrows)
           persist == proc[j].threadMetadataPersisted /\ proc[j].actualThreadId # NoId
       IN /\ MayThrow(Broker, job.clientId, writeThrows)
          /\ jobObj' = [jobObj EXCEPT ![j] = job]
          /\ clients' = b.clients
          /\ frames' = b.frames
          /\ writeFails' = b.writeFails
          /\ hist' = [hist EXCEPT ![j] = Append(@, [op |-> "send", data |-> ev])]
          /\ proc' = [proc EXCEPT ![j].pc = IF persist THEN "appendComplete" ELSE "done",
                                  ![j].pending = IF persist THEN ev ELSE Nil]
    /\ UNCHANGED <<jobs, amThreads, nextTemp, channelOf, chanOpen, nextChan, threadRows,
                   threadEventsTbl, now, dbFails, resp, nStops, yielded, dashVars>>

\* The stream throws while it is consumed.
StreamThrows(j, writeThrows) ==
    /\ proc[j].pc = "stream"
    /\ CatchBlock(j, jobObj[j], "stream failed", writeThrows)
    /\ UNCHANGED <<jobs, amThreads, nextTemp, channelOf, chanOpen, nextChan, threadRows,
                   threadEventsTbl, now, dbFails, resp, nStops, yielded, dashVars>>

\* Variant: a throw of the completion event's append is not swallowed and
\* reaches the catch block.
AppendFinal_Unsafe(j, at, threadId, dbThrows) ==
    /\ proc[j].pc = at
    /\ AppendMayThrow(threadId, dbThrows)
    /\ dbFails' = IF dbThrows /\ threadId \in DOMAIN threadRows
                  THEN dbFails + 1 ELSE dbFails
    /\ IF dbThrows /\ at = "appendComplete"
       THEN /\ CatchBlock(j, jobObj[j], "database error", FALSE)
            /\ UNCHANGED threadEventsTbl
       ELSE /\ threadEventsTbl' = IF dbThrows THEN threadEventsTbl
                                  ELSE appendEvent(threadEventsTbl, threadId, j,
                                                   proc[j].pending, now)
            /\ hist' = [hist EXCEPT ![j] =
                           Append(@, [op |-> "append", data |-> proc[j].pending])]
            /\ proc' = [proc EXCEPT ![j].pc = "done", ![j].pending = Nil]
            /\ UNCHANGED <<jobObj, clients, frames, writeFails>>
    /\ UNCHANGED <<jobs, amThreads, nextTemp, channelOf, chanOpen, nextChan, threadRows,
                   now, resp, nStops, yielded, dashVars>>

\* The append of the completion event / of the error event.
AppendFinal(j, at, threadId, dbThrows) ==
    /\ proc[j].pc = at
    /\ AppendMayThrow(threadId, dbThrows)
    /\ threadEventsTbl' = IF dbThrows THEN threadEventsTbl
                          ELSE appendEvent(threadEventsTbl, threadId, j, proc[j].pending, now)
    /\ dbFails' = IF dbThrows /\ threadId \in DOMAIN threadRows
                  THEN dbFails + 1 ELSE dbFails
    /\ hist' = [hist EXCEPT ![j] = Append(@, [op |-> "append", data |-> proc[j].pending])]
    /\ proc' = [proc EXCEPT ![j].pc = "done", ![j].pending = Nil]
    /\ UNCHANGED <<jobObj, jobs, amThreads, nextTemp, clients, channelOf, chanOpen,
                   nextChan, frames, threadRows, now, writeFails, resp, nStops, yielded, dashVars>>

AppendComplete(j, dbThrows) == AppendFinal(j, "appendComplete", proc[j].actualThreadId, dbThrows)

AppendError(j, dbThrows) == AppendFinal(j, "appendError", jobObj[j].threadId, dbThrows)

\* =============================================================== DashboardStore
Undefined == "<undefined>"      \* a field a payload does not carry
NoNum == -1                     \* a layout coordinate a payload does not carry
DashIds == 1..MaxDashboards
PlotIds == 1..MaxPlotIds
NoLayout == [x |-> NoNum, y |-> NoNum, w |-> NoNum, h |-> NoNum]
NoUpdates == [dashboardId |-> 0, title |-> Undefined, chartSpec |-> Undefined,
              chartOption |-> Undefined, layout |-> NoLayout]
CapacityError == "Dashboard is at capacity"

\* a ?? b on layout coordinates
Coalesce(a, b) == IF a = NoNum THEN b ELSE a

\* Variant: a coordinate the layout does not carry gets the default, not the fallback.
normalizeLayout_Defaults(layout, fallback) ==
    [x |-> Coalesce(layout.x, 0), y |-> Coalesce(layout.y, 0),
     w |-> Coalesce(layout.w, 6), h |-> Coalesce(layout.h, 6)]

\* normalizeLayout(layout, fallback): defaults 0, 0, 6, 6.
normalizeLayout(layout, fallback) ==
    [x |-> Coalesce(layout.x, Coalesce(fallback.x, 0)),
     y |-> Coalesce(layout.y, Coalesce(fallback.y, 0)),
     w |-> Coalesce(layout.w, Coalesce(fallback.w, 6)),
     h |-> Coalesce(layout.h, Coalesce(fallback.h, 6))]

\* select count(id) from dashboard_plots where dashboard_id = dashboardId
plotCount(pl, dashboardId) ==
    Cardinality({p \in DOMAIN pl : pl[p].dashboardId = dashboardId})

\* Variant: the capacity test lets a dashboard at the maximum take one more plot.
ensureCapacity_OffByOne(pl, dashboardId) ==
    IF plotCount(pl, dashboardId) > MAX_PLOTS_PER_DASHBOARD THEN CapacityError ELSE Nil

\* ensureCapacity(dashboardId): the error it throws, or Nil.
ensureCapacity(pl, dashboardId) ==
    IF plotCount(pl, dashboardId) >= MAX_PLOTS_PER_DASHBOARD THEN CapacityError ELSE Nil

\* createDashboard(payload)
CreateDashboard(name) ==
    /\ nextDash < MaxDashboards
    /\ nextDash' = nextDash + 1
    /\ dashboards' = MapSet(dashboards, nextDash + 1,
                            [name |-> name, createdAt |-> now, updatedAt |-> now])
    /\ dashResp' = [op |-> "createDashboard", arg |-> nextDash + 1, result |-> "ok"]
    /\ UNCHANGED <<plots, nextPlot, chatVars>>

\* deleteDashboard(id); its plots go with it when the engine enforces the foreign
\* key (ON DELETE CASCADE), and stay otherwise.
DeleteDashboard(id, cascades) ==
    /\ id \in DOMAIN dashboards
    /\ dashboards' = MapDel(dashboards, id)
    /\ plots' = IF cascades
                THEN [p \in {q \in DOMAIN plots : plots[q].dashboardId # id} |-> plots[p]]
                ELSE plots
    /\ (~cascades => plotCount(plots, id) > 0)
    /\ dashResp' = [op |-> "deleteDashboard", arg |-> id, result |-> "ok"]
    /\ UNCHANGED <<nextDash, nextPlot, chatVars>>

\* addPlot(payload): ensureCapacity, then the insert; fkRejects is the engine
\* refusing a row whose dashboard does not exist.
AddPlot(payload, fkRejects) ==
    LET full == ensureCapacity(plots, payload.dashboardId)
        layout == normalizeLayout(payload.layout, NoLayout)
        id == nextPlot + 1
    IN /\ (fkRejects => payload.dashboardId \notin DOMAIN dashboards)
       /\ IF full # Nil
          THEN /\ ~fkRejects
               /\ dashResp' = [op |-> "addPlot", arg |-> payload.dashboardId, result |-> full]
               /\ UNCHANGED <<plots, nextPlot>>
          ELSE IF fkRejects
          THEN /\ dashResp' = [op |-> "addPlot", arg |-> payload.dashboardId,
                               result |-> ForeignKeyError]
               /\ UNCHANGED <<plots, nextPlot>>
          ELSE /\ nextPlot < MaxPlotIds
               /\ nextPlot' = id
               /\ plots' = MapSet(plots, id,
                     [dashboardId |-> payload.dashboardId,
                      title |-> payload.title,
                      chartSpec |-> JSONStringify(IF payload.chartSpec = Undefined
                                                  THEN "{}" ELSE payload.chartSpec),
                      chartOption |-> IF payload.chartOption \in {Undefined, Nil}
                                      THEN Nil ELSE JSONStringify(payload.chartOption),
                      layoutX |-> layout.x, layoutY |-> layout.y,
                      layoutW |-> layout.w, layoutH |-> layout.h,
                      createdAt |-> now, updatedAt |-> now])
               /\ dashResp' = [op |-> "addPlot", arg |-> payload.dashboardId, result |-> "ok"]
       /\ UNCHANGED <<dashboards, nextDash, chatVars>>

\* Variant: every update checks the capacity of the target dashboard.
UpdatePlot_AlwaysChecks(plotId, updates, fkRejects) ==
    IF plotId \notin DOMAIN plots
    THEN /\ ~fkRejects
         /\ dashResp' = [op |-> "updatePlot", arg |-> plotId, req |-> updates, result |-> "null"]
         /\ UNCHANGED <<dashboards, nextDash, plots, nextPlot, chatVars>>
    ELSE LET existing == plots[plotId]
             targetDashboardId == IF updates.dashboardId = 0 THEN existing.dashboardId
                                  ELSE updates.dashboardId
             full == ensureCapacity(plots, targetDashboardId)
             layout == normalizeLayout(updates.layout,
                          [x |-> existing.layoutX, y |-> existing.layoutY,
                           w |-> existing.layoutW, h |-> existing.layoutH])
             row == [existing EXCEPT
                       !.dashboardId = targetDashboardId,
                       !.layoutX = layout.x, !.layoutY = layout.y,
                       !.layoutW = layout.w, !.layoutH = layout.h,
                       !.updatedAt = now,
                       !.title = IF updates.title # Undefined THEN updates.title ELSE @,
                       !.chartSpec = IF updates.chartSpec \notin {Undefined, Nil}
                                     THEN JSONStringify(updates.chartSpec) ELSE @,
                       !.chartOption = IF updates.chartOption = Undefined THEN @
                                       ELSE IF updates.chartOption = Nil THEN Nil
                                       ELSE JSONStringify(updates.chartOption)]
         IN /\ (fkRejects => targetDashboardId \notin DOMAIN dashboards)
            /\ IF full # Nil
               THEN /\ ~fkRejects
                    /\ dashResp' = [op |-> "updatePlot", arg |-> plotId, req |-> updates, result |-> full]
                    /\ UNCHANGED plots
               ELSE IF fkRejects
               THEN /\ dashResp' = [op |-> "updatePlot", arg |-> plotId, req |-> updates,
                                    result |-> ForeignKeyError]
                    /\ UNCHANGED plots
               ELSE /\ plots' = [plots EXCEPT ![plotId] = row]
                    /\ dashResp' = [op |-> "updatePlot", arg |-> plotId, req |-> updates, result |-> "ok"]
            /\ UNCHANGED <<dashboards, nextDash, nextPlot, chatVars>>

\* updatePlot(plotId, updates): null for a missing plot; a move checks the target's
\* capacity; then one UPDATE with the move, the layout and the patched fields.
UpdatePlot(plotId, updates, fkRejects) ==
    IF plotId \notin DOMAIN plots
    THEN /\ ~fkRejects
         /\ dashResp' = [op |-> "updatePlot", arg |-> plotId, req |-> updates, result |-> "null"]
         /\ UNCHANGED <<dashboards, nextDash, plots, nextPlot, chatVars>>
    ELSE LET existing == plots[plotId]
             targetDashboardId == IF updates.dashboardId = 0 THEN existing.dashboardId
                                  ELSE updates.dashboardId
             full == IF targetDashboardId # existing.dashboardId
                     THEN ensureCapacity(plots, targetDashboardId) ELSE Nil
             layout == normalizeLayout(updates.layout,
                          [x |-> existing.layoutX, y |-> existing.layoutY,
                           w |-> existing.layoutW, h |-> existing.layoutH])
             row == [existing EXCEPT
                       !.dashboardId = targetDashboardId,
                       !.layoutX = layout.x, !.layoutY = layout.y,
                       !.layoutW = layout.w, !.layoutH = layout.h,
                       !.updatedAt = now,
                       !.title = IF updates.title # Undefined THEN updates.title ELSE @,
                       !.chartSpec = IF updates.chartSpec \notin {Undefined, Nil}
                                     THEN JSONStringify(updates.chartSpec) ELSE @,
                       !.chartOption = IF updates.chartOption = Undefined THEN @
                                       ELSE IF updates.chartOption = Nil THEN Nil
                                       ELSE JSONStringify(updates.chartOption)]
         IN /\ (fkRejects => targetDashboardId \notin DOMAIN dashboards)
            /\ IF full # Nil
               THEN /\ ~fkRejects
                    /\ dashResp' = [op |-> "updatePlot", arg |-> plotId, req |-> updates, result |-> full]
                    /\ UNCHANGED plots
               ELSE IF fkRejects
               THEN /\ dashResp' = [op |-> "updatePlot", arg |-> plotId, req |-> updates,
                                    result |-> ForeignKeyError]
                    /\ UNCHANGED plots
               ELSE /\ plots' = [plots EXCEPT ![plotId] = row]
                    /\ dashResp' = [op |-> "updatePlot", arg |-> plotId, req |-> updates, result |-> "ok"]
            /\ UNCHANGED <<dashboards, nextDash, nextPlot, chatVars>>

\* deletePlot(plotId)
DeletePlot(plotId) ==
    /\ plots' = MapDel(plots, plotId)
    /\ dashResp' = [op |-> "deletePlot", arg |-> plotId, result |-> "ok"]
    /\ UNCHANGED <<dashboards, nextDash, nextPlot, chatVars>>

\* updateDashboard(id, {name}): nothing for an empty name, else one UPDATE (which
\* touches no row when the id is unknown).
UpdateDashboard(id, name) ==
    /\ dashboards' = IF name # <<>> /\ id \in DOMAIN dashboards
                     THEN [dashboards EXCEPT ![id].name = name, ![id].updatedAt = now]
                     ELSE dashboards
    /\ dashResp' = [op |-> "updateDashboard", arg |-> id, result |-> "ok"]
    /\ UNCHANGED <<nextDash, plots, nextPlot, chatVars>>

\* =============================================================== KnowledgeStore
\* SQL texts are sequences of characters.
SqlTexts == {<<>>, <<" ">>, <<"a">>, <<"b">>, <<"c">>, <<" ", "a">>, <<"a", " ">>}
\* The entries of a call; an entry may carry no sql at all.
NoSql == <<Nil>>
SqlInputs == SqlTexts \cup {NoSql}
Batches == UNION {[1..n -> SqlInputs] : n \in 0..MaxBatch}
\* The entries of a batch of texts: the i-th one carries message id i.
EntriesOf(batch) == [i \in DOMAIN batch |-> [sql |-> batch[i], messageId |-> i]]

\* String.prototype.trim
RECURSIVE trimStart(_)
trimStart(t) == IF t # <<>> /\ Head(t) = " " THEN trimStart(Tail(t)) ELSE t
RECURSIVE trimEnd(_)
trimEnd(t) == IF t # <<>> /\ t[Len(t)] = " " THEN trimEnd(SubSeq(t, 1, Len(t) - 1)) ELSE t
trim(t) == trimEnd(trimStart(t))

\* computeSqlHash(sql): sha256 of the trimmed text (taken as collision-free).
computeSqlHash(sql) == <<"sha256", trim(sql)>>

\* entries.map(...).filter(entry => Boolean(entry.sqlText))
RECURSIVE prepared(_)
prepared(entries) ==
    IF entries = <<>> THEN <<>>
    ELSE LET normalizedSql == IF Head(entries).sql = NoSql THEN <<>>
                              ELSE trim(Head(entries).sql)
             rest == prepared(Tail(entries))
         IN IF normalizedSql = <<>> THEN rest
            ELSE <<[messageId |-> Head(entries).messageId, sqlText |-> normalizedSql,
                    sqlHash |-> computeSqlHash(normalizedSql)]>>
                 \o rest

\* Variant: the last entry of every hash is the one kept.
RECURSIVE dedupedFrom_Last(_, _)
dedupedFrom_Last(prep, seen) ==
    IF prep = <<>> THEN <<>>
    ELSE IF \E k \in 2..Len(prep) : prep[k].sqlHash = Head(prep).sqlHash
         THEN dedupedFrom_Last(Tail(prep), seen)
         ELSE <<Head(prep)>> \o dedupedFrom_Last(Tail(prep), seen)

\* dedupMap: the first entry of every hash, in order.
RECURSIVE dedupedFrom(_, _)
dedupedFrom(prep, seen) ==
    IF prep = <<>> THEN <<>>
    ELSE IF Head(prep).sqlHash \in seen THEN dedupedFrom(Tail(prep), seen)
         ELSE <<Head(prep)>> \o dedupedFrom(Tail(prep), seen \cup {Head(prep).sqlHash})

\* Variant: every deduplicated entry is inserted, stored or not.
rowsToInsert_All(dedupedPrepared, existingHashes) == dedupedPrepared

\* dedupedPrepared.filter(entry => !existingHashes.has(entry.sqlHash))
rowsToInsert(dedupedPrepared, existingHashes) ==
    SelectSeq(dedupedPrepared, LAMBDA e : e.sqlHash \notin existingHashes)

\* saveKnowledgeEntries(entries): the store it leaves and the counts it returns.
saveKnowledgeEntries(store, entries, t) ==
    LET prep == prepared(entries)
        dedupedPrepared == dedupedFrom(prep, {})
        duplicatesFromPayload == Len(prep) - Len(dedupedPrepared)
        uniqueHashes == {dedupedPrepared[i].sqlHash : i \in DOMAIN dedupedPrepared}
        existingHashes == {store[i].sqlHash : i \in DOMAIN store} \cap uniqueHashes
        rows == rowsToInsert(dedupedPrepared, existingHashes)
    IN IF entries = <<>> \/ prep = <<>>
       THEN [store |-> store, saved |-> 0, duplicates |-> 0]
       ELSE [store |-> store \o [i \in DOMAIN rows |->
                                   [messageId |-> rows[i].messageId,
                                    sqlText |-> rows[i].sqlText, sqlHash |-> rows[i].sqlHash,
                                    createdAt |-> t]],
             saved |-> Len(rows),
             duplicates |-> duplicatesFromPayload + (Len(dedupedPrepared) - Len(rows))]

SaveKnowledge(entries) ==
    LET r == saveKnowledgeEntries(knowledge, EntriesOf(entries), now)
    IN /\ knowledge' = r.store
       /\ knowResp' = [entries |-> entries, saved |-> r.saved, duplicates |-> r.duplicates]
       /\ UNCHANGED <<jobObj, jobs, proc, amThreads, nextTemp, clients, channelOf, chanOpen,
                      nextChan, frames, threadRows, threadEventsTbl, now, dbFails,
                      writeFails, hist, resp, nStops, yielded, dashboards, nextDash,
                      plots, nextPlot, dashResp, storeResp, sendResp, cleaned,
                      httpResp, dashCalls, storeCalls>>

\* ------------------------------------- KnowledgeStore calls that interleave
\* saveKnowledgeEntries is suspended at its two awaits: the lookup of the hashes
\* already stored, and the INSERT of the rows that lookup did not find.
KnowledgeFrame ==
    UNCHANGED <<jobObj, jobs, proc, amThreads, nextTemp, clients, channelOf, chanOpen,
                nextChan, frames, threadRows, threadEventsTbl, now, dbFails,
                writeFails, hist, resp, nStops, yielded, dashboards, nextDash,
                plots, nextPlot, dashResp, knowResp, storeResp, sendResp, cleaned,
                httpResp, dashCalls>>

\* The texts two calls may share, a text given twice and an entry without sql.
RaceTexts == {<<"a">>, <<"a", " ">>, <<"b">>, NoSql}
RaceBatches == UNION {[1..n -> RaceTexts] : n \in 0..MaxBatch}

\* idx_agent_knowledge_sql_hash: no two rows of agent_knowledge share a sql_hash.
\* An INSERT that would break it is rejected whole.
uniqueIndexRejects(store, rows) ==
    \E i \in DOMAIN rows : \E k \in DOMAIN store : store[k].sqlHash = rows[i].sqlHash

\* Up to the return of the awaited SELECT.
SaveLookup(c, batch) ==
    LET entries == EntriesOf(batch)
        prep == prepared(entries)
        dedupedPrepared == dedupedFrom(prep, {})
        uniqueHashes == {dedupedPrepared[i].sqlHash : i \in DOMAIN dedupedPrepared}
        existingHashes == {knowledge[i].sqlHash : i \in DOMAIN knowledge} \cap uniqueHashes
    IN /\ storeCalls[c].pc = "none"
       /\ storeCalls' = [storeCalls EXCEPT ![c] =
              IF entries = <<>> \/ prep = <<>>
              THEN [pc |-> "done", op |-> "save", batch |-> batch, found |-> {},
                    threw |-> FALSE, saved |-> 0, duplicates |-> 0]
              ELSE [pc |-> "insert", op |-> "save", batch |-> batch,
                    found |-> existingHashes,
                    threw |-> FALSE, saved |-> 0, duplicates |-> 0]]
       /\ UNCHANGED knowledge
       /\ KnowledgeFrame

\* From there to the end: the INSERT, and the catch block that rethrows.
SaveInsert(c) ==
    LET call == storeCalls[c]
        prep == prepared(EntriesOf(call.batch))
        dedupedPrepared == dedupedFrom(prep, {})
        duplicatesFromPayload == Len(prep) - Len(dedupedPrepared)
        rows == rowsToInsert(dedupedPrepared, call.found)
        duplicates == duplicatesFromPayload + (Len(dedupedPrepared) - Len(rows))
    IN /\ call.pc = "insert"
       /\ IF uniqueIndexRejects(knowledge, rows)
          THEN /\ UNCHANGED knowledge
               /\ storeCalls' = [storeCalls EXCEPT ![c].pc = "done", ![c].threw = TRUE]
          ELSE /\ knowledge' = knowledge \o [i \in DOMAIN rows |->
                                   [messageId |-> rows[i].messageId,
                                    sqlText |-> rows[i].sqlText, sqlHash |-> rows[i].sqlHash,
                                    createdAt |-> now]]
               /\ storeCalls' = [storeCalls EXCEPT ![c].pc = "done",
                                     ![c].saved = Len(rows), ![c].duplicates = duplicates]
       /\ KnowledgeFrame

\* ---------------------------------------- ThreadStore calls that interleave
\* upsertThread is suspended at its two awaits: the SELECT of the existing row,
\* and the UPDATE or INSERT chosen from what that SELECT returned.
ThreadFrame ==
    UNCHANGED <<jobObj, jobs, proc, amThreads, nextTemp, clients, channelOf, chanOpen,
                nextChan, frames, threadEventsTbl, now, dbFails, writeFails, hist,
                resp, nStops, yielded, dashboards, nextDash, plots, nextPlot, dashResp,
                knowledge, knowResp, storeResp, sendResp, cleaned, httpResp, dashCalls>>

\* The payloads of the calls: what processChat hands over for its messages.
RacePayloads ==
    [id : CanonIds, agentType : {"chat"}, title : {"hi", "yo"},
     lastUserMessage : {"hi", "yo"}, lastAgentMessage : {Nil}, lastClientId : {"a"}]

\* threads.id is the primary key: an INSERT of an id that has a row is rejected.
primaryKeyRejects(rows, id) == id \in DOMAIN rows

\* Up to the return of the awaited SELECT.
UpsertLookup(c, p) ==
    /\ storeCalls[c].pc = "none"
    /\ storeCalls' = [storeCalls EXCEPT ![c] =
          [pc |-> "write", op |-> "upsert", payload |-> p, t |-> now,
           existing |-> IF p.id \in DOMAIN threadRows
                        THEN <<threadRows[p.id]>> ELSE <<>>,
           threw |-> FALSE]]
    /\ UNCHANGED threadRows
    /\ ThreadFrame

\* From there to the end: the UPDATE computed from the row the SELECT returned,
\* or the INSERT when it returned none.
UpsertWrite(c) ==
    LET call == storeCalls[c]
        p == call.payload
    IN /\ call.pc = "write"
       /\ IF call.existing # <<>>
          THEN /\ threadRows' = upsertThread(MapSet(threadRows, p.id, call.existing[1]),
                                             p, call.t)
               /\ storeCalls' = [storeCalls EXCEPT ![c].pc = "done"]
          ELSE IF primaryKeyRejects(threadRows, p.id)
          THEN /\ UNCHANGED threadRows
               /\ storeCalls' = [storeCalls EXCEPT ![c].pc = "done", ![c].threw = TRUE]
          ELSE /\ threadRows' = upsertThread(threadRows, p, call.t)
               /\ storeCalls' = [storeCalls EXCEPT ![c].pc = "done"]
       /\ ThreadFrame

\* ------------------------------------- DashboardStore calls that interleave
\* A call is suspended at each await: addPlot between ensureCapacity and its
\* INSERT, updatePlot between its capacity check and its UPDATE.
CallFrame ==
    UNCHANGED <<jobObj, jobs, proc, amThreads, nextTemp, clients, channelOf, chanOpen,
                nextChan, frames, threadRows, threadEventsTbl, now, dbFails, writeFails,
                hist, resp, nStops, yielded, dashboards, nextDash, dashResp, httpResp,
                knowledge, knowResp, storeResp, sendResp, cleaned, storeCalls>>

\* addPlot up to the return of ensureCapacity.
AddPlotCheck(c, dashboardId) ==
    /\ dashCalls[c].pc = "none"
    /\ LET full == ensureCapacity(plots, dashboardId)
       IN dashCalls' = [dashCalls EXCEPT ![c] =
             [pc |-> IF full # Nil THEN "done" ELSE "insert",
              dashboardId |-> dashboardId, plotId |-> 0, result |-> full]]
    /\ UNCHANGED <<plots, nextPlot>>
    /\ CallFrame

\* addPlot from its INSERT on.
AddPlotInsert(c) ==
    /\ dashCalls[c].pc = "insert"
    /\ nextPlot < MaxPlotIds
    /\ nextPlot' = nextPlot + 1
    /\ plots' = MapSet(plots, nextPlot + 1,
                       [dashboardId |-> dashCalls[c].dashboardId, title |-> "t1",
                        chartSpec |-> JSONStringify("{}"), chartOption |-> Nil,
                        layoutX |-> 0, layoutY |-> 0, layoutW |-> 6, layoutH |-> 6,
                        createdAt |-> now, updatedAt |-> now])
    /\ dashCalls' = [dashCalls EXCEPT ![c].pc = "done", ![c].plotId = nextPlot + 1,
                                      ![c].result = "ok"]
    /\ CallFrame

\* updatePlot(plotId, {dashboardId}) up to the return of its capacity check.
UpdatePlotCheck(c, plotId, dashboardId) ==
    /\ dashCalls[c].pc = "none"
    /\ IF plotId \notin DOMAIN plots
       THEN dashCalls' = [dashCalls EXCEPT ![c] =
               [pc |-> "done", dashboardId |-> dashboardId, plotId |-> plotId,
                result |-> "null"]]
       ELSE LET full == IF dashboardId # plots[plotId].dashboardId
                        THEN ensureCapacity(plots, dashboardId) ELSE Nil
            IN dashCalls' = [dashCalls EXCEPT ![c] =
                  [pc |-> IF full # Nil THEN "done" ELSE "update",
                   dashboardId |-> dashboardId, plotId |-> plotId, result |-> full]]
    /\ UNCHANGED <<plots, nextPlot>>
    /\ CallFrame

\* updatePlot from its UPDATE on.
UpdatePlotWrite(c) ==
    /\ dashCalls[c].pc = "update"
    /\ plots' = IF dashCalls[c].plotId \in DOMAIN plots
                THEN [plots EXCEPT ![dashCalls[c].plotId].dashboardId = dashCalls[c].dashboardId,
                                   ![dashCalls[c].plotId].updatedAt = now]
                ELSE plots
    /\ dashCalls' = [dashCalls EXCEPT ![c].pc = "done", ![c].result = "ok"]
    /\ UNCHANGED nextPlot
    /\ CallFrame

\* ============================================================= dashboard routes
\* Texts of a request body: not a string at all, or a sequence of characters.
NotAString == <<Nil>>
BodyTexts == {NotAString, <<>>, <<" ">>, <<"a">>, <<" ", "b">>}

\* typeof v === 'string' ? v.trim() : ''
trimmedText(v) == IF v = NotAString THEN <<>> ELSE trim(v)

\* The JSON bodies the routes answer with; maxPlots -1: the body has no such field.
plainBody(route, status, error) ==
    [route |-> route, status |-> status, error |-> error, maxPlots |-> -1]
bodyWithMax(route, status, error) ==
    [route |-> route, status |-> status, error |-> error,
     maxPlots |-> MAX_PLOTS_PER_DASHBOARD]

\* /capacity/i.test(error.message)
isCapacityError(message) == message = CapacityError

\* Variant: the catch block of the plot routes answers without maxPlots.
plotFailure_Plain(route, message, generic) ==
    IF isCapacityError(message)
    THEN plainBody(route, 400, "Dashboard is at capacity")
    ELSE plainBody(route, 500, generic)

\* The catch block of the two plot routes.
plotFailure(route, message, generic) ==
    IF isCapacityError(message)
    THEN bodyWithMax(route, 400, "Dashboard is at capacity")
    ELSE bodyWithMax(route, 500, generic)

\* What leaves the variables of the store and of the chat server alone.
RouteRejects == UNCHANGED <<dashboards, nextDash, plots, nextPlot, dashResp, chatVars>>

\* POST /dashboards; dbThrows: the store's database is not available.
PostDashboards(rawName, dbThrows) ==
    LET route == "POST /dashboards"
        name == trimmedText(rawName)
    IN IF name = <<>>
       THEN /\ ~dbThrows
            /\ httpResp' = plainBody(route, 400, "Dashboard name is required")
            /\ RouteRejects
       ELSE IF dbThrows
       THEN /\ httpResp' = plainBody(route, 500, "Failed to create dashboard")
            /\ RouteRejects
       ELSE /\ CreateDashboard(name)
            /\ httpResp' = bodyWithMax(route, 201, Nil)

\* PUT /dashboards/:dashboardId: updateDashboard, then getDashboard.
PutDashboard(id, rawName, dbThrows) ==
    LET route == "PUT /dashboards/:dashboardId"
        name == trimmedText(rawName)
    IN IF name = <<>>
       THEN /\ ~dbThrows
            /\ httpResp' = plainBody(route, 400, "Dashboard name is required")
            /\ RouteRejects
       ELSE IF dbThrows
       THEN /\ httpResp' = plainBody(route, 500, "Failed to update dashboard")
            /\ RouteRejects
       ELSE /\ UpdateDashboard(id, name)
            /\ httpResp' = IF id \in DOMAIN dashboards
                           THEN bodyWithMax(route, 200, Nil)
                           ELSE plainBody(route, 404, "Dashboard not found")

\* POST /dashboards/:dashboardId/plots
PostPlots(dashboardId, rawTitle, chartSpec, fkRejects) ==
    LET route == "POST /dashboards/:dashboardId/plots"
        title == trimmedText(rawTitle)
    IN IF title = <<>>
       THEN /\ ~fkRejects
            /\ httpResp' = plainBody(route, 400, "Plot title is required")
            /\ RouteRejects
       ELSE IF chartSpec = Undefined
       THEN /\ ~fkRejects
            /\ httpResp' = plainBody(route, 400, "chartSpec is required")
            /\ RouteRejects
       ELSE /\ AddPlot([dashboardId |-> dashboardId, title |-> title,
                        chartSpec |-> chartSpec, chartOption |-> Nil,
                        layout |-> NoLayout], fkRejects)
            /\ httpResp' = IF dashResp'.result = "ok"
                           THEN plainBody(route, 201, Nil)
                           ELSE plotFailure(route, dashResp'.result, "Failed to add plot")

\* PUT /dashboards/:dashboardId/plots/:plotId: the target dashboard is the body's
\* dashboardId when it is a string, else the one of the URL.
PutPlot(urlDashboardId, plotId, bodyDashboardId, rawTitle, fkRejects) ==
    LET route == "PUT /dashboards/:dashboardId/plots/:plotId"
        targetDashboardId == IF bodyDashboardId # 0 THEN bodyDashboardId
                             ELSE urlDashboardId
    IN /\ UpdatePlot(plotId,
                     [NoUpdates EXCEPT !.dashboardId = targetDashboardId,
                                       !.title = IF rawTitle = NotAString THEN Undefined
                                                 ELSE rawTitle],
                     fkRejects)
       /\ httpResp' = IF dashResp'.result = "null"
                      THEN plainBody(route, 404, "Plot not found")
                      ELSE IF dashResp'.result = "ok"
                      THEN plainBody(route, 200, Nil)
                      ELSE plotFailure(route, dashResp'.result, "Failed to update plot")

\* ============================================================== periodic sweeps
\* The clock advances (one tick is one hour).
TickTo(last) ==
    /\ now < last
    /\ now' = now + 1
    /\ UNCHANGED <<jobObj, jobs, proc, amThreads, nextTemp, clients, channelOf, chanOpen,
                   nextChan, frames, threadRows, threadEventsTbl, dbFails, writeFails,
                   hist, resp, nStops, yielded, dashVars>>

Tick == TickTo(MaxTime)

\* cleanupInactiveThreads(): the handles idle for more than 30 minutes (the clock
\* counts hours).
toRemove(reg, t) == {x \in DOMAIN reg : (t - reg[x].lastActivity) * 60 > 30}

\* Variant: every handle is evicted, idle or not.
cleanupInactiveThreads_All(reg, t) ==
    [id \in {x \in DOMAIN reg : FALSE} |-> reg[id]]

\* cleanupInactiveThreads(): the registry after the eviction.
cleanupInactiveThreads(reg, t) ==
    [id \in DOMAIN reg \ toRemove(reg, t) |-> reg[id]]

\* The five-minute sweep: cleanupInactiveThreads() and the count it returns.
CleanupSweep ==
    /\ cleaned.n < MaxSweeps
    /\ amThreads' = cleanupInactiveThreads(amThreads, now)
    /\ cleaned' = [n |-> cleaned.n + 1, removed |-> Cardinality(toRemove(amThreads, now))]
    /\ UNCHANGED <<jobObj, jobs, proc, nextTemp, clients, channelOf, chanOpen, nextChan,
                   frames, threadRows, threadEventsTbl, now, dbFails, writeFails, hist,
                   resp, nStops, yielded, dashboards, nextDash, plots, nextPlot, dashResp,
                   knowledge, knowResp, storeResp, sendResp, httpResp, dashCalls, storeCalls>>

\* Variant: the sweep drops every job that has an endTime, however recent.
PurgeSweep_Ended ==
    /\ jobs' = {j \in jobs : ~(jobObj[j].endTime # -1)}
    /\ jobs' # jobs
    /\ UNCHANGED <<jobObj, proc, amThreads, nextTemp, clients, channelOf, chanOpen,
                   nextChan, frames, threadRows, threadEventsTbl, now, dbFails, writeFails,
                   hist, resp, nStops, yielded, dashVars>>

\* The hourly job sweep: drop the jobs that ended more than an hour ago.
PurgeSweep ==
    /\ jobs' = {j \in jobs : ~(jobObj[j].endTime # -1
                               /\ jobObj[j].endTime * 60 < now * 60 - 60)}
    /\ jobs' # jobs
    /\ UNCHANGED <<jobObj, proc, amThreads, nextTemp, clients, channelOf, chanOpen,
                   nextChan, frames, threadRows, threadEventsTbl, now, dbFails, writeFails,
                   hist, resp, nStops, yielded, dashVars>>

\* ======================================================================== Spec
\* The segments of processChat; D and W are the faults the environment may inject:
\* D the outcomes "the persistence operation throws", W the sends that throw.
JobSteps(D, W) ==
    \/ \E j \in JobIds, r \in BOOLEAN, w \in W : ProcessStart(j, r, w # 0)
    \/ \E j \in JobIds, d \in D, wt \in W : EagerPersist(j, d, wt)
    \/ \E j \in JobIds, d \in D : AppendUser(j, d)
    \/ \E j \in JobIds, r \in BOOLEAN, w \in W : RunStreamed(j, r, w # 0)
    \/ \E j \in JobIds, n \in 1..MaxStream, d \in D, wt \in W :
          \E e \in RuntimeEvents(n) : NextEvent(j, e, d, wt)
    \/ \E j \in JobIds, w \in W : Relay(j, w # 0)
    \/ \E j \in JobIds, d \in D : AppendEvent(j, d)
    \/ \E j \in JobIds, d \in D : UpdateMeta(j, d)
    \/ \E j \in JobIds, w \in W : StreamEnd(j, w # 0)
    \/ \E j \in JobIds, w \in W : StreamThrows(j, w # 0)
    \/ \E j \in JobIds, d \in D : AppendComplete(j, d)
    \/ \E j \in JobIds, d \in D : AppendError(j, d)

NoJobYet == \A j \in JobIds : jobObj[j].status = "none"

SubmitAny ==
    \E c \in ClientInputs, a \in AgentInputs, m \in MessageInputs, t \in ThreadInputs :
        Submit(c, a, m, t)

\* One turn, with persistence faults, channel-write faults and the channel closing.
Next ==
    \/ \E c \in ClientIds : nextChan = 0 /\ AddClient(c)
    \/ \E ch \in ChannelIds : CloseChannel(ch)
    \/ NoJobYet /\ SubmitAny
    \/ JobSteps(BOOLEAN, 0..2)

Spec == Init /\ [][Next]_vars

\* One turn under the clock, with stop requests and the idle-thread sweep.
NextClock ==
    \/ \E c \in ClientIds : nextChan = 0 /\ AddClient(c)
    \/ NoJobYet /\ SubmitAny
    \/ \E j \in JobIds : Stop(j)
    \/ JobSteps({FALSE}, {0})
    \/ Tick
    \/ CleanupSweep

SpecClock == Init /\ [][NextClock]_vars

\* The same, with processChat never left suspended forever: each await in it
\* resolves, and the runtime stream yields, ends or throws.
SpecClockFair == SpecClock /\ WF_vars(JobSteps({FALSE}, {0}))

\* A second job under the clock and the idle-thread sweep.  The start is the state
\* SpecClock reaches when job 1, submitted by client "a" on a new thread, has seen
\* its stream yield thread.started for th1 and end, all at time 0.
IdleThread == <<"th", 1>>
IdleFrames ==
    <<threadInfoFrame(1, IdleThread, "chat"),
      userEvent(1, "chat", IdleThread, "hi"),
      transformedEvent(1, "chat", IdleThread, ThreadStarted(IdleThread, 1)),
      completionEvent(1, IdleThread, 0)>>

IdleInit ==
    /\ DashInit0
    /\ KnowInit
    /\ jobObj = [j \in JobIds |->
                   IF j = 1
                   THEN [clientId |-> "a", agentType |-> "chat", threadId |-> IdleThread,
                         status |-> "completed", startTime |-> 0, endTime |-> 0,
                         error |-> Nil]
                   ELSE NoJob]
    /\ jobs = {1}
    /\ proc = [j \in JobIds |->
                 IF j = 1
                 THEN [NoProc EXCEPT !.pc = "done", !.message = "hi",
                                     !.actualThreadId = IdleThread,
                                     !.threadMetadataPersisted = TRUE,
                                     !.userEventPersisted = TRUE,
                                     !.event = ThreadStarted(IdleThread, 1),
                                     !.consumed = 1, !.after = "relay"]
                 ELSE NoProc]
    /\ amThreads = updateThreadId(startThread(<<>>, "chat", 0, 0), TempId(1), IdleThread)
    /\ nextTemp = 1
    /\ clients = [c \in ClientIds |-> 1]
    /\ channelOf = [ch \in ChannelIds |-> IF ch = 1 THEN "a" ELSE ""]
    /\ chanOpen = {1}
    /\ nextChan = 1
    /\ frames = [ch \in ChannelIds |->
                   IF ch = 1
                   THEN <<JSONStringify(connectedFrame("a"))>>
                        \o [i \in 1..4 |-> JSONStringify(IdleFrames[i])]
                   ELSE <<>>]
    /\ threadRows = upsertThread(<<>>, [id |-> IdleThread, agentType |-> "chat",
                                        title |-> "hi", lastUserMessage |-> "hi",
                                        lastAgentMessage |-> Nil, lastClientId |-> "a"], 0)
    /\ threadEventsTbl = appendEvent(appendEvent(appendEvent(<<>>,
                              IdleThread, 1, IdleFrames[2], 0),
                              IdleThread, 1, IdleFrames[3], 0),
                              IdleThread, 1, IdleFrames[4], 0)
    /\ now = 0
    /\ dbFails = 0
    /\ writeFails = 0
    /\ hist = [j \in JobIds |->
                 IF j = 1
                 THEN <<[op |-> "send", data |-> IdleFrames[1]],
                        [op |-> "send", data |-> IdleFrames[2]],
                        [op |-> "append", data |-> IdleFrames[2]],
                        [op |-> "send", data |-> IdleFrames[3]],
                        [op |-> "append", data |-> IdleFrames[3]],
                        [op |-> "send", data |-> IdleFrames[4]],
                        [op |-> "append", data |-> IdleFrames[4]]>>
                 ELSE <<>>]
    /\ resp = [status |-> 200, jobId |-> 1, jobStatus |-> "queued",
               req |-> [clientId |-> "a", agentType |-> "chat", message |-> "hi",
                        threadId |-> NoId]]
    /\ nStops = 0
    /\ yielded = [j \in JobIds |-> IF j = 1 THEN <<ThreadStarted(IdleThread, 1)>> ELSE <<>>]

NoJobRunning == \A j \in JobIds : proc[j].pc \in {"none", "done"}

\* A well-formed request that names a thread by a canonical id.
SubmitOnThread ==
    \E c \in ClientIds, a \in AgentInputs \ {""}, t \in CanonIds : Submit(c, a, "hi", t)

NextIdle ==
    \/ NoJobRunning /\ SubmitOnThread
    \/ JobSteps({FALSE}, {0})
    \/ Tick
    \/ CleanupSweep

SpecIdle == IdleInit /\ [][NextIdle]_vars

\* Two jobs of one client on the same canonical thread, in flight together: each
\* POST /chat may arrive while the other job's processChat is suspended.
PairThread == <<"th", 1>>
\* processChat without faults, the runtime yielding agent messages only (the thread
\* id is canonical from the start, so no event waits for a reconciliation).
PairSteps ==
    \/ \E j \in JobIds : ProcessStart(j, FALSE, FALSE)
    \/ \E j \in JobIds : EagerPersist(j, FALSE, 0)
    \/ \E j \in JobIds : AppendUser(j, FALSE)
    \/ \E j \in JobIds : RunStreamed(j, FALSE, FALSE)
    \/ \E j \in JobIds, n \in 1..MaxStream : NextEvent(j, ItemCompleted("ans", n), FALSE, 0)
    \/ \E j \in JobIds : AppendEvent(j, FALSE)
    \/ \E j \in JobIds : UpdateMeta(j, FALSE)
    \/ \E j \in JobIds : StreamEnd(j, FALSE)
    \/ \E j \in JobIds : StreamThrows(j, FALSE)
    \/ \E j \in JobIds : AppendComplete(j, FALSE)
    \/ \E j \in JobIds : AppendError(j, FALSE)

NextPair ==
    \/ \E c \in ClientIds : nextChan = 0 /\ AddClient(c)
    \/ \E c \in ClientIds : Submit(c, "chat", "hi", PairThread)
    \/ PairSteps

SpecPair == Init /\ [][NextPair]_vars

\* One job whose stream yields agent messages with different texts, an agent
\* message without text, thread.started and turn.completed; the job names no thread
\* or a canonical one; the metadata update may fail.
MetaEvents(n) ==
    {ItemCompleted("one", n), ItemCompleted("two", n), ItemCompleted("", n),
     ThreadStarted(PairThread, n), TurnCompleted(n)}
NextMeta ==
    \/ \E c \in ClientIds : nextChan = 0 /\ AddClient(c)
    \/ \E c \in ClientIds, t \in {NoId, PairThread} : NoJobYet /\ Submit(c, "chat", "hi", t)
    \/ \E j \in JobIds : ProcessStart(j, FALSE, FALSE)
    \/ \E j \in JobIds : EagerPersist(j, FALSE, 0)
    \/ \E j \in JobIds : AppendUser(j, FALSE)
    \/ \E j \in JobIds : RunStreamed(j, FALSE, FALSE)
    \/ \E j \in JobIds, n \in 1..MaxStream : \E e \in MetaEvents(n) : NextEvent(j, e, FALSE, 0)
    \/ \E j \in JobIds : Relay(j, FALSE)
    \/ \E j \in JobIds : AppendEvent(j, FALSE)
    \/ \E j \in JobIds, d \in BOOLEAN : UpdateMeta(j, d)
    \/ \E j \in JobIds : StreamEnd(j, FALSE)
    \/ \E j \in JobIds : AppendComplete(j, FALSE)

SpecMeta == Init /\ [][NextMeta]_vars

\* Jobs on one canonical thread, one after the other, over MaxHours hours, with stop
\* requests and the hourly job sweep.
NextPurge ==
    \/ \E c \in ClientIds : nextChan = 0 /\ AddClient(c)
    \/ \E c \in ClientIds : NoJobRunning /\ Submit(c, "chat", "hi", PairThread)
    \/ \E j \in JobIds : Stop(j)
    \/ PairSteps
    \/ TickTo(MaxHours)
    \/ PurgeSweep

SpecPurge == Init /\ [][NextPurge]_vars

\* Submission against channels that open, are superseded and close: two jobs on new
\* threads whose runtime streams are empty.
GateSteps ==
    \/ \E j \in JobIds : ProcessStart(j, FALSE, FALSE)
    \/ \E j \in JobIds, r \in BOOLEAN : RunStreamed(j, r, FALSE)
    \/ \E j \in JobIds : StreamEnd(j, FALSE)

SubmitNew ==
    \E c \in ClientInputs, a \in AgentInputs, m \in MessageInputs : Submit(c, a, m, NoId)

NextGate ==
    \/ \E c \in ClientIds : AddClient(c)
    \/ \E ch \in ChannelIds : CloseChannel(ch)
    \/ SubmitNew
    \/ GateSteps

SpecGate == Init /\ [][NextGate]_vars


\* The dashboard store, its calls executed one at a time.
NewPlot(d) == [dashboardId |-> d, title |-> "t1", chartSpec |-> Undefined,
               chartOption |-> Undefined, layout |-> NoLayout]
MoveTo(d) == [NoUpdates EXCEPT !.dashboardId = d]

\* The plot ids a call names: the stored ones and one that is not stored.
PlotInputs == DOMAIN plots \cup {nextPlot + 1}

NextDash ==
    \/ CreateDashboard("board") /\ UNCHANGED httpResp
    \/ \E d \in DashIds, fk \in BOOLEAN : AddPlot(NewPlot(d), fk) /\ UNCHANGED httpResp
    \/ \E p \in PlotInputs, d \in {0} \cup DashIds, fk \in BOOLEAN :
          UpdatePlot(p, MoveTo(d), fk) /\ UNCHANGED httpResp
    \/ \E p \in PlotInputs : DeletePlot(p) /\ UNCHANGED httpResp

SpecDash == Init /\ [][NextDash]_vars

\* One plot patched again and again: an update supplies up to MaxPatch of the
\* target dashboard, the title, the chart payloads and the four coordinates, or a
\* title with x, or all of them.
TitleAndX == [NoUpdates EXCEPT !.title = "t2", !.layout.x = 3]
FullPatch == [dashboardId |-> 1, title |-> "t2", chartSpec |-> "s2", chartOption |-> "o2",
              layout |-> [x |-> 3, y |-> 1, w |-> 2, h |-> 4]]
SuppliedFields(u) ==
    {f \in {"dashboardId", "title", "chartSpec", "chartOption"} : u[f] # NoUpdates[f]}
    \cup {f \in {"x", "y", "w", "h"} : u.layout[f] # NoNum}
PatchInputs ==
    {u \in [dashboardId : {0} \cup DashIds, title : {Undefined, "t2"},
            chartSpec : {Undefined, "s2"}, chartOption : {Undefined, Nil, "o2"},
            layout : [x : {NoNum, 3}, y : {NoNum, 1}, w : {NoNum, 2}, h : {NoNum, 4}]] :
        Cardinality(SuppliedFields(u)) <= MaxPatch}
    \cup {TitleAndX, FullPatch}
NextPatch ==
    \/ CreateDashboard("board") /\ UNCHANGED httpResp
    \/ \E d \in DashIds, fk \in BOOLEAN :
          nextPlot = 0 /\ AddPlot(NewPlot(d), fk) /\ UNCHANGED httpResp
    \/ \E p \in PlotInputs, u \in PatchInputs, fk \in BOOLEAN :
          UpdatePlot(p, u, fk) /\ UNCHANGED httpResp

SpecPatch == Init /\ [][NextPatch]_vars

\* The move scenario: dashboard 1 holds one plot less than the maximum, dashboard 2
\* holds one plot; plots are added, patched and moved while the clock advances.
MoveInit ==
    /\ ChatInit
    /\ nextDash = 2
    /\ dashboards = [d \in {1, 2} |-> [name |-> "board", createdAt |-> 0, updatedAt |-> 0]]
    /\ nextPlot = MAX_PLOTS_PER_DASHBOARD
    /\ plots = [p \in 1..MAX_PLOTS_PER_DASHBOARD |->
                  [dashboardId |-> IF p < MAX_PLOTS_PER_DASHBOARD THEN 1 ELSE 2,
                   title |-> "t1",
                   chartSpec |-> JSONStringify("{}"), chartOption |-> Nil,
                   layoutX |-> 0, layoutY |-> 0, layoutW |-> 6, layoutH |-> 6,
                   createdAt |-> 0, updatedAt |-> 0]]
    /\ dashResp = [op |-> "addPlot", arg |-> 2, result |-> "ok"]
    /\ KnowInit

MovedPlots == (MAX_PLOTS_PER_DASHBOARD - 1)..(MAX_PLOTS_PER_DASHBOARD + 1)
MoveUpdates ==
    {[NoUpdates EXCEPT !.dashboardId = d, !.title = t] :
        d \in {0, 1, 2}, t \in {Undefined, "t2"}}

NextMove ==
    \/ \E d \in {1, 2} : AddPlot(NewPlot(d), FALSE) /\ UNCHANGED httpResp
    \/ \E p \in MovedPlots, u \in MoveUpdates : UpdatePlot(p, u, FALSE) /\ UNCHANGED httpResp
    \/ Tick

SpecMove == MoveInit /\ [][NextMove]_vars


\* The dashboard routes, one request at a time: dashboards are created and renamed,
\* plots are added to dashboard 1, and the first plot is moved between dashboards.
NextRoutes ==
    \/ \E n \in {NotAString, <<" ">>, <<" ", "b">>}, th \in BOOLEAN : PostDashboards(n, th)
    \/ \E d \in DashIds, n \in {<<>>, <<"a">>}, th \in BOOLEAN : PutDashboard(d, n, th)
    \/ \E t \in {NotAString, <<"a">>}, c \in {Undefined, "spec"}, fk \in BOOLEAN :
          PostPlots(1, t, c, fk)
    \/ \E d \in DashIds, p \in {1, nextPlot + 1}, fk \in BOOLEAN :
          PutPlot(d, p, 0, NotAString, fk)

SpecRoutes == Init /\ [][NextRoutes]_vars

\* Dashboard calls in flight together, from the state of the move scenario.
NextRace ==
    \/ \E c \in CallIds, d \in {1, 2} : AddPlotCheck(c, d)
    \/ \E c \in CallIds : AddPlotInsert(c)
    \/ \E c \in CallIds, p \in MovedPlots, d \in {1, 2} : UpdatePlotCheck(c, p, d)
    \/ \E c \in CallIds : UpdatePlotWrite(c)

SpecRace == MoveInit /\ [][NextRace]_vars

\* The knowledge store, its calls executed one at a time.
NextKnow == \E entries \in Batches : SaveKnowledge(entries)

SpecKnow == Init /\ [][NextKnow]_vars

\* The knowledge store, two calls suspended at their awaits.
NextSaveRace ==
    \/ \E c \in CallIds, batch \in RaceBatches : SaveLookup(c, batch)
    \/ \E c \in CallIds : SaveInsert(c)

SpecSaveRace == Init /\ [][NextSaveRace]_vars

\* The thread store, two upsertThread calls suspended at their awaits.
NextUpsertRace ==
    \/ \E c \in CallIds, p \in RacePayloads : UpsertLookup(c, p)
    \/ \E c \in CallIds : UpsertWrite(c)

SpecUpsertRace == Init /\ [][NextUpsertRace]_vars


\* The thread store, its operations called directly in any order.
NextStore ==
    \/ \E id \in CanonIds, a \in StoreAgents, ti \in StoreTitles : StoreUpsert(id, a, ti)
    \/ \E id \in CanonIds, u \in StoreMetas : StoreUpdateMeta(id, u)
    \/ \E id \in CanonIds \cup {NoId}, e \in StoreEvents, fk \in BOOLEAN :
          StoreAppend(id, 1, e, fk)

SpecStore == Init /\ [][NextStore]_vars

\* upsertThread called directly with any payload, while the clock advances.
NextUpsert ==
    \/ \E p \in UpsertPayloads : StoreUpsertPayload(p)
    \/ Tick

SpecUpsert == Init /\ [][NextUpsert]_vars


\* The broker, sendToClient called directly while channels open and close.
NextSend ==
    \/ \E c \in ClientIds : AddClient(c)
    \/ \E ch \in ChannelIds : CloseChannel(ch)
    \/ \E c \in ClientInputs, wt \in BOOLEAN : SendDirect(c, wt)

SpecSend == Init /\ [][NextSend]_vars


\* ====================================================================== claims
\* What the properties read off the state.
Calls(j, op) == {i \in DOMAIN hist[j] : hist[j][i].op = op}
IsUserMessage(data) == data.type = "agent_event" /\ data.event.type = "response_item"
IsRuntimeEvent(data) == data.type = "agent_event" /\ data.event.type # "response_item"
ThreadInfoSends(j) == {i \in Calls(j, "send") : hist[j][i].data.type = "thread_info"}
UserAppends(j) == {i \in Calls(j, "append") : IsUserMessage(hist[j][i].data)}
\* The frames of a job that reached a channel, as <<channel, position>>.
FramesOf(j, type) ==
    {p \in UNION {{<<ch, i>> : i \in DOMAIN frames[ch]} : ch \in ChannelIds} :
        /\ JSONParse(frames[p[1]][p[2]]).type = type
        /\ JSONParse(frames[p[1]][p[2]]).jobId = j}
\* The rows of thread_events a job wrote.
RowsOf(j) == {i \in DOMAIN threadEventsTbl : threadEventsTbl[i].jobId = j}
UserRows(j) == {i \in RowsOf(j) : IsUserMessage(JSONParse(threadEventsTbl[i].eventPayload))}
FirstEventCanonical(j) ==
    /\ yielded[j] # <<>>
    /\ yielded[j][1].type = "thread.started"
    /\ yielded[j][1].thread_id \in CanonIds
Created(j) == jobObj[j].status # "none"
IsPlaceholder(id) == id # NoId /\ id[1] = "temp_"
StayedRegistered(j) == clients[jobObj[j].clientId] # 0 /\ writeFails = 0

\* C1: for every job and every event stream, the job issues at most one thread_info
\* send and at most one user-message append, at most one thread_info frame reaches
\* the client and at most one user-message row is stored; when the stream's first
\* event carries the canonical id, exactly one thread_info send and exactly one
\* user-message append are issued, the frame is on the channel exactly once if the
\* channel stayed registered, and the row is stored exactly once if no persistence
\* operation threw.
C1_ReconcileAtMostOnce ==
    \A j \in JobIds : Created(j) =>
        /\ Cardinality(ThreadInfoSends(j)) <= 1
        /\ Cardinality(FramesOf(j, "thread_info")) <= 1
        /\ Cardinality(UserAppends(j)) <= 1
        /\ Cardinality(UserRows(j)) <= 1
        /\ FirstEventCanonical(j) =>
              /\ Cardinality(ThreadInfoSends(j)) = 1
              /\ StayedRegistered(j) => Cardinality(FramesOf(j, "thread_info")) = 1
              /\ proc[j].pc # "appendUser" =>
                    /\ Cardinality(UserAppends(j)) = 1
                    /\ dbFails = 0 => Cardinality(UserRows(j)) = 1

\* C1 witness: a finished job whose stream yielded two thread.started events, the
\* first one canonical, with one thread_info frame delivered and one user row stored.
C1_Witness ==
    \E j \in JobIds :
        /\ proc[j].pc = "done"
        /\ FirstEventCanonical(j)
        /\ Len(yielded[j]) >= 2
        /\ yielded[j][2].type = "thread.started"
        /\ yielded[j][2].thread_id # yielded[j][1].thread_id
        /\ Cardinality(FramesOf(j, "thread_info")) = 1
        /\ Cardinality(UserRows(j)) = 1

\* C2: for every event a job appends to ThreadStore (user message, agent event,
\* job_complete, error), the sendToClient call for that same event was made before
\* the appendEvent call, and nothing was appended in between.
C2_RelayPrecedesPersist ==
    \A j \in JobIds : \A i \in Calls(j, "append") :
        /\ i > 1
        /\ hist[j][i - 1] = [op |-> "send", data |-> hist[j][i].data]
        /\ \A k \in Calls(j, "append") : k # i => hist[j][k].data # hist[j][i].data

\* C2 witness: a finished job that appended its user message, an agent event and
\* its completion event.
C2_Witness ==
    \E j \in JobIds :
        /\ proc[j].pc = "done"
        /\ \E i \in Calls(j, "append") : IsUserMessage(hist[j][i].data)
        /\ \E i \in Calls(j, "append") : IsRuntimeEvent(hist[j][i].data)
        /\ \E i \in Calls(j, "append") : hist[j][i].data.type = "job_complete"

\* The runtime events a job relayed, in order of relay.
RECURSIVE RelayedFrom(_)
RelayedFrom(h) ==
    IF h = <<>> THEN <<>>
    ELSE IF Head(h).op = "send" /\ IsRuntimeEvent(Head(h).data)
         THEN <<Head(h).data.event>> \o RelayedFrom(Tail(h))
         ELSE RelayedFrom(Tail(h))
Relayed(j) == RelayedFrom(hist[j])

\* C3: no thread row and no durable event is keyed by a placeholder id; while a
\* job's thread id is a placeholder, every event its stream yielded has been
\* relayed and the job has appended nothing.
C3_TemporaryNeverPersisted ==
    /\ \A id \in DOMAIN threadRows : ~IsPlaceholder(id)
    /\ \A i \in DOMAIN threadEventsTbl : ~IsPlaceholder(threadEventsTbl[i].threadId)
    /\ \A j \in JobIds : IsPlaceholder(proc[j].actualThreadId) =>
          /\ Calls(j, "append") = {}
          /\ RowsOf(j) = {}
          /\ Relayed(j) = yielded[j]

\* C3 witness: a job under a placeholder id has relayed two events and stored none.
C3_Witness ==
    \E j \in JobIds :
        /\ IsPlaceholder(proc[j].actualThreadId)
        /\ Len(yielded[j]) = 2
        /\ Relayed(j) = yielded[j]
        /\ RowsOf(j) = {}


\* The frames written on a channel, parsed.
Received(ch) == [i \in DOMAIN frames[ch] |-> JSONParse(frames[ch][i])]
\* The job was submitted without a thread id (a new thread).
OnNewThread(j) == resp.jobId = j /\ resp.status = 200 /\ resp.req.threadId = NoId

\* C4: a finished job on a new thread whose stream's first event revealed the
\* canonical id, with no stop request and no persistence failure: its client's
\* channel holds connected, thread_info, one or more agent_event frames and last
\* job_complete with duration >= 0, in that order; getThreadEvents of the resolved
\* thread is exactly the agent_event payloads of the channel in the same order
\* followed by the job_complete payload, and holds no connected event.
C4_EndToEnd ==
    \A j \in JobIds :
        (/\ proc[j].pc = "done" /\ jobObj[j].status = "completed"
         /\ OnNewThread(j) /\ FirstEventCanonical(j)
         /\ nStops = 0 /\ dbFails = 0) =>
        LET f == Received(clients[jobObj[j].clientId])
            n == Len(f)
            tid == yielded[j][1].thread_id
            log == getThreadEvents(tid)
        IN /\ n >= 4
           /\ f[1].type = "connected"
           /\ f[2] = threadInfoFrame(j, tid, jobObj[j].agentType)
           /\ \A i \in 3..(n - 1) : f[i].type = "agent_event" /\ f[i].jobId = j
           /\ f[n].type = "job_complete" /\ f[n].jobId = j /\ f[n].duration >= 0
           /\ jobObj[j].threadId = tid
           /\ log = SubSeq(f, 3, n)
           /\ \A i \in DOMAIN log : log[i].type # "connected"

\* C4 witness: such a job that relayed its user message and two runtime events and
\* took one tick of the clock.
C4_Witness ==
    \E j \in JobIds :
        /\ proc[j].pc = "done" /\ jobObj[j].status = "completed"
        /\ OnNewThread(j) /\ FirstEventCanonical(j)
        /\ nStops = 0 /\ dbFails = 0
        /\ Len(yielded[j]) = 2
        /\ Len(getThreadEvents(yielded[j][1].thread_id)) = 4
        /\ Received(clients[jobObj[j].clientId])[6].duration = 1

\* The job_complete sends of a job, and the stored rows holding a given event.
CompleteSends(j) == {i \in Calls(j, "send") : hist[j][i].data.type = "job_complete"}
RowsHolding(j, data) ==
    {i \in RowsOf(j) : JSONParse(threadEventsTbl[i].eventPayload) = data}

\* C5 (as amended): once a job's stream is exhausted without an exception, its status
\* is completed, endTime is set, and one job_complete event was sent to the client
\* whose duration was endTime - startTime when it was sent (a later stop request only
\* moves endTime forward); that event is appended to the durable log of the job's
\* thread exactly when the job's thread metadata was persisted under a canonical id,
\* and a job still under a placeholder id appends nothing.
C5_CompletionWhenPersisted ==
    \A j \in JobIds : \A i \in CompleteSends(j) :
        LET ev == hist[j][i].data
        IN /\ jobObj[j].status = "completed"
           /\ jobObj[j].endTime # -1
           /\ ev.duration >= 0
           /\ ev.duration <= jobObj[j].endTime - jobObj[j].startTime
           /\ nStops = 0 => ev.duration = jobObj[j].endTime - jobObj[j].startTime
           /\ CompleteSends(j) = {i}
           /\ Cardinality(FramesOf(j, "job_complete")) = 1
           /\ proc[j].pc = "done" =>
                 /\ proc[j].threadMetadataPersisted =>
                       /\ hist[j][Len(hist[j])] = [op |-> "append", data |-> ev]
                       /\ Cardinality(RowsHolding(j, ev)) = 1
                       /\ \A r \in RowsHolding(j, ev) :
                             threadEventsTbl[r].threadId = jobObj[j].threadId
                 /\ ~proc[j].threadMetadataPersisted =>
                       /\ IsPlaceholder(jobObj[j].threadId)
                       /\ Calls(j, "append") = {}
                       /\ RowsOf(j) = {}

\* C5 witness: a finished job with persisted metadata whose completion event, of
\* duration 1, is the last row of its thread's log.
C5_Witness ==
    \E j \in JobIds : \E i \in CompleteSends(j) :
        /\ proc[j].pc = "done"
        /\ proc[j].threadMetadataPersisted
        /\ hist[j][i].data.duration = 1
        /\ RowsHolding(j, hist[j][i].data) # {}
        /\ nStops = 0

\* C5 as stated: every job whose stream was exhausted without an exception has its
\* job_complete event in the durable log.
C5_Original ==
    \A j \in JobIds : \A i \in CompleteSends(j) :
        proc[j].pc = "done" => RowsHolding(j, hist[j][i].data) # {}

\* The error sends of a job.
ErrorSends(j) == {i \in Calls(j, "send") : hist[j][i].data.type = "error"}
HasCanonicalId(j) == jobObj[j].threadId # NoId /\ ~IsPlaceholder(jobObj[j].threadId)

\* C6: a job is in status error exactly when an exception reached processChat's
\* catch block; then the error message is recorded, one error event carrying it was
\* sent to the client (and is on the channel if the channel stayed registered), and
\* once the handler is done that event was appended to ThreadStore if and only if
\* the job's thread id is a canonical one; an error row is never keyed otherwise.
C6_ErrorPersistedIffCanonical ==
    \A j \in JobIds :
        /\ (jobObj[j].status = "error") <=> (ErrorSends(j) # {})
        /\ jobObj[j].status = "error" =>
              LET ev == errorEvent(j, jobObj[j].error)
              IN /\ jobObj[j].error # Nil
                 /\ jobObj[j].endTime # -1
                 /\ \A i \in ErrorSends(j) : hist[j][i].data = ev
                 /\ Cardinality(ErrorSends(j)) = 1
                 /\ StayedRegistered(j) => Cardinality(FramesOf(j, "error")) = 1
                 /\ proc[j].pc \in {"appendError", "done"}
                 /\ proc[j].pc = "appendError" => HasCanonicalId(j)
                 /\ proc[j].pc = "done" =>
                       ((hist[j][Len(hist[j])] = [op |-> "append", data |-> ev])
                           <=> HasCanonicalId(j))
                 /\ \A r \in RowsHolding(j, ev) :
                       /\ HasCanonicalId(j)
                       /\ threadEventsTbl[r].threadId = jobObj[j].threadId

\* C6 witness: a job whose stream threw after reconciliation, with the error event
\* stored under the canonical id.
C6_Witness ==
    \E j \in JobIds :
        /\ jobObj[j].status = "error"
        /\ jobObj[j].error = "stream failed"
        /\ proc[j].pc = "done"
        /\ FirstEventCanonical(j)
        /\ RowsHolding(j, errorEvent(j, jobObj[j].error)) # {}

\* What the runtime can throw into processChat.
RuntimeFailures == {"Agent not found", "run failed", "stream failed"}

\* C7: whatever persistence operations have thrown, a job is in status error only
\* for a failure of the runtime (never for one of ThreadStore); at every point
\* between two loop iterations every event the stream yielded has been relayed; and
\* a job whose stream was exhausted is completed.
C7_PersistenceFailureSwallowed ==
    \A j \in JobIds :
        /\ jobObj[j].status = "error" => jobObj[j].error \in RuntimeFailures
        /\ proc[j].pc \in {"stream", "appendComplete", "appendError", "done"} =>
              Relayed(j) = yielded[j]
        /\ CompleteSends(j) # {} => jobObj[j].status = "completed"
        /\ (proc[j].pc = "done" /\ ErrorSends(j) = {}) =>
              (jobObj[j].status = "completed" /\ CompleteSends(j) # {})

\* C7 witness: a completed job that lost a row to a persistence failure and still
\* relayed both events of its stream, the second after the failure.
C7_Witness ==
    \E j \in JobIds :
        /\ proc[j].pc = "done"
        /\ jobObj[j].status = "completed"
        /\ dbFails = 1
        /\ Len(yielded[j]) = 2
        /\ Relayed(j) = yielded[j]
        /\ UserRows(j) = {}
        /\ UserAppends(j) # {}
        /\ Cardinality(RowsOf(j)) = 3

\* The request of the last POST /chat.
MissingField(r) == r.clientId = "" \/ r.agentType = "" \/ r.message = ""
NoChannel(r) == r.clientId \notin ClientIds \/ clients[r.clientId] = 0

\* C8: every POST /chat whose request lacks clientId, agentType or message, or names
\* a client with no registered channel, answers 400 and leaves the jobs map and the
\* jobs unchanged; every other one answers 200 with {jobId, status: 'queued'}, adds
\* exactly that one job, in status queued, with processChat not yet started; and
\* the jobs map grows in no other way.
C8_SubmissionGate ==
    [][ /\ resp' # resp =>
            IF MissingField(resp'.req) \/ NoChannel(resp'.req)
            THEN /\ resp'.status = 400
                 /\ jobs' = jobs /\ jobObj' = jobObj /\ proc' = proc
            ELSE /\ resp'.status = 200
                 /\ resp'.jobStatus = "queued"
                 /\ resp'.jobId \notin jobs
                 /\ jobs' = jobs \cup {resp'.jobId}
                 /\ jobObj'[resp'.jobId].status = "queued"
                 /\ jobObj'[resp'.jobId].clientId = resp'.req.clientId
                 /\ proc'[resp'.jobId].pc = "queued"
                 /\ hist'[resp'.jobId] = <<>>
                 /\ \A j \in JobIds \ {resp'.jobId} :
                        jobObj'[j] = jobObj[j] /\ proc'[j] = proc[j]
        /\ jobs' # jobs => (resp' # resp /\ resp'.status = 200)
      ]_vars

\* C8 witness: with one job accepted earlier, a complete request is rejected for a
\* client whose channel has closed.
C8_Witness ==
    /\ resp.status = 400
    /\ ~MissingField(resp.req)
    /\ clients[resp.req.clientId] = 0
    /\ nextChan > 0
    /\ Cardinality(jobs) = 1

\* C9: when processChat starts for a job whose thread id has no active handle, the
\* agent profile is loaded and resumeThread fails (no handle is registered under the
\* requested id), the job goes on under a newly minted placeholder id with a handle
\* registered under it, in status processing, having sent and appended nothing; the
\* start of processChat ends in status error only for an unknown agent profile.
C9_ResumeFallback ==
    [][ \A j \in JobIds :
          (proc[j].pc = "queued" /\ proc'[j].pc # "queued") =>
             /\ (/\ jobObj[j].threadId # NoId
                 /\ jobObj[j].threadId \notin DOMAIN amThreads
                 /\ jobObj[j].threadId \notin DOMAIN amThreads'
                 /\ jobObj[j].agentType \in LoadedAgents) =>
                    /\ jobObj'[j].threadId # jobObj[j].threadId
                    /\ jobObj'[j].threadId[1] = "temp_"
                    /\ jobObj'[j].threadId \in DOMAIN amThreads' \ DOMAIN amThreads
                    /\ proc'[j].actualThreadId = jobObj'[j].threadId
                    /\ jobObj'[j].status = "processing"
                    /\ proc'[j].pc = "run"
                    /\ hist'[j] = <<>>
                    /\ frames' = frames
                    /\ threadRows' = threadRows /\ threadEventsTbl' = threadEventsTbl
             /\ jobObj'[j].status = "error" => jobObj[j].agentType \notin LoadedAgents
      ]_vars

\* C9 witness: a job submitted for a canonical thread id runs to completion under a
\* placeholder id, with no error event.
C9_Witness ==
    \E j \in JobIds :
        /\ resp.jobId = j /\ resp.status = 200
        /\ resp.req.threadId \in CanonIds
        /\ jobObj[j].threadId = TempId(1)
        /\ proc[j].pc = "done"
        /\ jobObj[j].status = "completed"
        /\ ErrorSends(j) = {}


\* C10: in every state of the store, called one call at a time, every dashboard
\* holds at most MAX_PLOTS_PER_DASHBOARD plots; and every addPlot on a dashboard
\* that holds MAX_PLOTS_PER_DASHBOARD plots ends with the capacity error and leaves
\* the stored plots as they were.
C10_Capacity ==
    /\ [](\A d \in DashIds : plotCount(plots, d) <= 6)
    /\ [][ \A d \in DashIds :
             (/\ Cardinality({p \in DOMAIN plots : plots[p].dashboardId = d}) = 6
              /\ dashResp' # dashResp
              /\ dashResp'.op = "addPlot" /\ dashResp'.arg = d) =>
                (dashResp'.result = "Dashboard is at capacity" /\ plots' = plots)
         ]_vars

\* C10 witness: an addPlot was refused for capacity on a dashboard holding six plots
\* while a plot was moved there and deleted again earlier.
C10_Witness ==
    /\ dashResp.op = "addPlot"
    /\ dashResp.result = "Dashboard is at capacity"
    /\ Cardinality({p \in DOMAIN plots : plots[p].dashboardId = dashResp.arg}) = 6
    /\ nextPlot = 7
    /\ Cardinality(DOMAIN plots) = 6


\* The stored plots of a dashboard.
PlotsOn(d) == {p \in DOMAIN plots : plots[p].dashboardId = d}

\* C11: for every updatePlot of a stored plot: when the call names a dashboard other
\* than the plot's own and that dashboard holds six plots, the call ends with the
\* capacity error and every stored row, the plot's included, is as it was; when it
\* names another dashboard with room, the plot moves there, however full the
\* dashboard it leaves; when the target is the plot's own dashboard (named or not),
\* the call succeeds even if that dashboard holds six plots, the plot stays there
\* and its title and updatedAt take the patch and the time of the call.
C11_MoveChecksTarget ==
    [][ (dashResp' # dashResp /\ dashResp'.op = "updatePlot"
         /\ dashResp'.arg \in DOMAIN plots) =>
          LET p == dashResp'.arg
              u == dashResp'.req
              own == plots[p].dashboardId
              target == IF u.dashboardId = 0 THEN own ELSE u.dashboardId
          IN IF target # own /\ Cardinality(PlotsOn(target)) >= 6
             THEN /\ dashResp'.result = "Dashboard is at capacity"
                  /\ plots' = plots
             ELSE /\ dashResp'.result = "ok"
                  /\ plots'[p].dashboardId = target
                  /\ plots'[p].updatedAt = now
                  /\ plots'[p].title = IF u.title = Undefined THEN plots[p].title ELSE u.title
                  /\ plots'[p].createdAt = plots[p].createdAt
                  /\ \A q \in DOMAIN plots \ {p} : plots'[q] = plots[q]
                  /\ DOMAIN plots' = DOMAIN plots
      ]_vars

\* C11 witness: after the clock advanced, a move of dashboard 2's plot with a new
\* title into the full dashboard 1 was refused, and the plot is in dashboard 2 with
\* its first title and time.
C11_Witness ==
    /\ dashResp.op = "updatePlot"
    /\ dashResp.result = "Dashboard is at capacity"
    /\ dashResp.req.dashboardId = 1 /\ dashResp.req.title = "t2"
    /\ Cardinality(PlotsOn(1)) = 6
    /\ now = 1
    /\ plots[dashResp.arg].dashboardId = 2
    /\ plots[dashResp.arg].title = "t1"
    /\ plots[dashResp.arg].updatedAt = 0


\* What the claims read off a batch: its entries that are not blank, trimmed.
StoredTexts == {knowledge[i].sqlText : i \in DOMAIN knowledge}
RECURSIVE StripEnds(_)
StripEnds(t) ==
    IF t = <<>> THEN t
    ELSE IF Head(t) = " " THEN StripEnds(Tail(t))
    ELSE IF t[Len(t)] = " " THEN StripEnds(SubSeq(t, 1, Len(t) - 1))
    ELSE t
NonBlank(entries) ==
    {i \in DOMAIN entries : entries[i] # <<"<null>">> /\ StripEnds(entries[i]) # <<>>}
TextsOf(entries) == {StripEnds(entries[i]) : i \in NonBlank(entries)}

\* C12: for every saveKnowledgeEntries call: a one-entry batch whose text is not
\* stored returns {saved: 1, duplicates: 0}; a batch all of whose non-blank texts
\* are stored (in particular any batch saved before) leaves the store unchanged and
\* returns saved = 0 and duplicates = the number of its non-blank entries; after
\* the call every non-blank text of the batch is stored; and no two rows of the
\* store ever hold the same text or the same hash.
C12_SaveIdempotent ==
    /\ [](\A i, k \in DOMAIN knowledge :
            (knowledge[i].sqlText = knowledge[k].sqlText
             \/ knowledge[i].sqlHash = knowledge[k].sqlHash) => i = k)
    /\ [][ knowResp' # knowResp =>
             LET b == knowResp'.entries
             IN /\ TextsOf(b) \subseteq
                      {knowledge'[i].sqlText : i \in DOMAIN knowledge'}
                /\ (Len(b) = 1 /\ NonBlank(b) # {} /\ TextsOf(b) \cap StoredTexts = {}) =>
                      /\ knowResp'.saved = 1 /\ knowResp'.duplicates = 0
                      /\ Len(knowledge') = Len(knowledge) + 1
                /\ TextsOf(b) \subseteq StoredTexts =>
                      /\ knowledge' = knowledge
                      /\ knowResp'.saved = 0
                      /\ knowResp'.duplicates = Cardinality(NonBlank(b))
                /\ knowResp'.saved = Len(knowledge') - Len(knowledge)
                /\ SubSeq(knowledge', 1, Len(knowledge)) = knowledge
         ]_vars

\* C12 witness: a batch of two spellings of one stored text was saved again and
\* counted as two duplicates, the text being stored once.
C12_Witness ==
    /\ knowResp.entries = << <<" ", "a">>, <<"a", " ">> >>
    /\ knowResp.saved = 0 /\ knowResp.duplicates = 2
    /\ Cardinality({i \in DOMAIN knowledge : knowledge[i].sqlText = <<"a">>}) = 1


HasTitle(rows, id) == id \in DOMAIN rows /\ rows[id].title # Nil /\ rows[id].title # ""

\* C13 as stated: once a thread row has a title, no ThreadStore operation changes it.
C13_TitleNeverOverwritten ==
    [][ \A id \in CanonIds :
          HasTitle(threadRows, id) =>
             (id \in DOMAIN threadRows' /\ threadRows'[id].title = threadRows[id].title)
      ]_vars

\* C13, the part that holds: an upsertThread call never changes a title that is set,
\* and gives a row without one the title it carries.
C13_UpsertKeepsTitle ==
    [][ (storeResp' # storeResp /\ storeResp'.op = "upsertThread") =>
          LET id == storeResp'.id
          IN /\ id \in DOMAIN threadRows'
             /\ threadRows'[id].title =
                   IF HasTitle(threadRows, id) THEN threadRows[id].title
                   ELSE storeResp'.title
             /\ \A x \in DOMAIN threadRows \ {id} : threadRows'[x] = threadRows[x]
      ]_vars


\* The log of a thread as getThreadEvents returns it from a given table.
LogIn(tbl, tid) ==
    LET idx == SelectSeq([i \in DOMAIN tbl |-> i], LAMBDA i : tbl[i].threadId = tid)
    IN [k \in DOMAIN idx |-> tbl[idx[k]].eventPayload[2]]
IsPrefix(a, b) == Len(a) <= Len(b) /\ SubSeq(b, 1, Len(a)) = a

\* C14: in every step of any sequence of ThreadStore operations, the log
\* getThreadEvents returned before for a thread is a prefix of the log it returns
\* after; an appendEvent that is accepted makes the log of its thread the old log
\* followed by the event, and leaves the logs of the other threads as they were;
\* an appendEvent with no thread id stores nothing.
C14_AppendOnlyLog ==
    [][ /\ \A tid \in CanonIds :
              /\ getThreadEvents(tid) = LogIn(threadEventsTbl, tid)
              /\ IsPrefix(LogIn(threadEventsTbl, tid), LogIn(threadEventsTbl', tid))
        /\ (storeResp' # storeResp /\ storeResp'.op = "appendEvent") =>
              IF storeResp'.result = "ok" /\ storeResp'.id # NoId
              THEN \A tid \in CanonIds :
                     LogIn(threadEventsTbl', tid) =
                        IF tid = storeResp'.id
                        THEN Append(LogIn(threadEventsTbl, tid), storeResp'.event)
                        ELSE LogIn(threadEventsTbl, tid)
              ELSE threadEventsTbl' = threadEventsTbl
      ]_vars

\* C14 witness: e1, then an event of another thread, then e2 were appended, and the
\* thread's log is e1 followed by e2.
C14_Witness ==
    /\ Len(threadEventsTbl) = 3
    /\ threadEventsTbl[2].threadId # threadEventsTbl[1].threadId
    /\ getThreadEvents(threadEventsTbl[1].threadId) = <<[type |-> "e1"], [type |-> "e2"]>>


DeliveriesOf(n) ==
    {<<ch, i>> \in ChannelIds \X (1..(MaxSends + 1)) :
        /\ i <= Len(frames[ch])
        /\ frames[ch][i][2].type = "direct"
        /\ frames[ch][i][2].n = n}

\* C16: a sendToClient call returns true exactly when the client was registered and
\* the write did not throw, and it then appended the event once to the registered
\* channel and left the registrations alone; when it returns false nothing was
\* written and the client is unregistered afterwards (it was unknown, or the failed
\* write removed it); no other step ever writes the event of an earlier call, so an
\* event that was not delivered by its own call is found on no channel at any later
\* time, also after the client registered again, and a delivered one is found once.
C16_BestEffortAtMostOnce ==
    /\ [](\A n \in 1..MaxSends :
            /\ Cardinality(DeliveriesOf(n)) <= 1
            /\ n > sendResp.n => DeliveriesOf(n) = {})
    /\ [][ IF sendResp' # sendResp
           THEN LET c == sendResp'.clientId
                    n == sendResp'.n
                    registered == c = "a" /\ clients[c] # 0
                IN /\ sendResp'.result = TRUE =>
                        /\ registered
                        /\ writeFails' = writeFails
                        /\ clients' = clients
                        /\ frames' = [frames EXCEPT ![clients[c]] =
                                         Append(@, <<"json", [type |-> "direct", n |-> n]>>)]
                   /\ sendResp'.result = FALSE =>
                        /\ frames' = frames
                        /\ c = "a" => clients'[c] = 0
                        /\ registered => writeFails' = writeFails + 1
                   /\ (registered /\ writeFails' = writeFails) => sendResp'.result = TRUE
           ELSE \A n \in 1..MaxSends :
                   \A d \in DeliveriesOf(n)' : d \in DeliveriesOf(n)
      ]_vars

\* C16 witness: the first send's write failed, the second found no registration,
\* the client registered again and the third send was delivered on the new channel,
\* which holds nothing of the first two.
C16_Witness ==
    /\ sendResp.n = 3
    /\ sendResp.result = TRUE
    /\ writeFails = 1
    /\ nextChan = 2
    /\ frames[1] = << <<"json", [type |-> "connected", clientId |-> "a"]>> >>
    /\ frames[2] = << <<"json", [type |-> "connected", clientId |-> "a"]>>,
                      <<"json", [type |-> "direct", n |-> 3]>> >>


\* A stop request for the job was served (its client heard of it).
Stopped(j) == FramesOf(j, "job_stopped") # {}

\* C17: a stop request for an existing job sets the job's status to completed and
\* its endTime to the present, sends job_stopped to the job's client, and touches
\* nothing of the job's processChat, of its runtime stream or of the durable store;
\* the stopped job's loop goes on to the end of its stream: every event the stream
\* yields is relayed, and when the job finishes on a new thread with a canonical id
\* the thread's log holds, in order, every agent_event and the job_complete that the
\* channel holds, exactly as without the stop.
C17_StopAdvisory ==
    /\ [][ nStops' # nStops =>
             \E j \in jobs :
                 /\ jobObj' = [jobObj EXCEPT ![j].status = "completed", ![j].endTime = now]
                 /\ frames' = [frames EXCEPT ![clients[jobObj[j].clientId]] =
                                  Append(@, <<"json", [type |-> "job_stopped", jobId |-> j]>>)]
                 /\ UNCHANGED <<proc, yielded, hist, amThreads, threadRows, threadEventsTbl,
                                jobs, clients>>
      ]_vars
    /\ [](\A j \in JobIds : Stopped(j) =>
            /\ proc[j].pc \in {"stream", "appendComplete", "appendError", "done"} =>
                  Relayed(j) = yielded[j]
            /\ (/\ proc[j].pc = "done" /\ ErrorSends(j) = {}
                /\ OnNewThread(j) /\ FirstEventCanonical(j)) =>
                  LET f == SelectSeq(Received(clients[jobObj[j].clientId]),
                                     LAMBDA x : x.type # "job_stopped")
                      log == getThreadEvents(yielded[j][1].thread_id)
                  IN /\ log = SubSeq(f, 3, Len(f))
                     /\ Len(log) = Len(yielded[j]) + 2
                     /\ log[Len(log)].type = "job_complete")
    /\ \A j \in JobIds : Stopped(j) ~> (proc[j].pc = "done")

\* C17 witness: a job stopped before its stream yielded its second event; that event
\* was relayed after job_stopped and is the last agent_event of the thread's log.
C17_Witness ==
    \E j \in JobIds :
        /\ proc[j].pc = "done"
        /\ Len(yielded[j]) = 2
        /\ FirstEventCanonical(j)
        /\ LET f == Received(clients[jobObj[j].clientId])
               log == getThreadEvents(yielded[j][1].thread_id)
           IN \E i, k \in DOMAIN f :
                 /\ i < k
                 /\ f[i].type = "job_stopped"
                 /\ f[k].type = "agent_event"
                 /\ f[k].event = yielded[j][2]
                 /\ Len(log) = 4
                 /\ log[3] = f[k]


\* C18: a job's status only moves from queued to processing and from processing to
\* completed or error; a job that is completed or error keeps that status for ever.
C18_StatusLifecycle ==
    [][ \A j \in JobIds :
           \/ jobObj'[j].status = jobObj[j].status
           \/ jobObj[j].status = "none" /\ jobObj'[j].status = "queued"
           \/ jobObj[j].status = "queued" /\ jobObj'[j].status = "processing"
           \/ jobObj[j].status = "processing" /\ jobObj'[j].status \in {"completed", "error"}
      ]_vars


\* C19: a run of cleanupInactiveThreads removes exactly the handles whose idle time
\* exceeds thirty minutes, returns how many they were, and leaves every other handle,
\* every thread row and every thread's event log as they were; and the start of a
\* job that names a canonical thread with no handle either registers a fresh handle
\* under that same id (resumeThread) and goes on under it, or, when the runtime
\* refuses the id, falls back to a new thread.
C19_IdleEviction ==
    [][ /\ cleaned' # cleaned =>
             LET idle == {x \in DOMAIN amThreads : (now - amThreads[x].lastActivity) * 60 > 30}
             IN /\ DOMAIN amThreads' = DOMAIN amThreads \ idle
                /\ \A x \in DOMAIN amThreads' : amThreads'[x] = amThreads[x]
                /\ cleaned'.removed = Cardinality(idle)
                /\ UNCHANGED <<threadRows, threadEventsTbl, jobObj, jobs, proc, frames>>
        /\ \A j \in JobIds :
              (/\ proc[j].pc = "queued" /\ proc'[j].pc # "queued"
               /\ jobObj[j].threadId # NoId /\ jobObj[j].threadId[1] = "th"
               /\ jobObj[j].threadId \notin DOMAIN amThreads
               /\ jobObj[j].agentType = "chat") =>
                 \/ /\ jobObj'[j].threadId = jobObj[j].threadId
                    /\ proc'[j].actualThreadId = jobObj[j].threadId
                    /\ jobObj[j].threadId \in DOMAIN amThreads'
                    /\ amThreads'[jobObj[j].threadId].lastActivity = now
                    /\ jobObj'[j].status = "processing"
                 \/ /\ jobObj'[j].threadId # jobObj[j].threadId
                    /\ jobObj'[j].threadId \in DOMAIN amThreads' \ DOMAIN amThreads
                    /\ jobObj'[j].status = "processing"
      ]_vars

\* C19 witness: the first job's thread was evicted by the sweep with its row and log
\* in place; the second job named it, got a fresh handle under the same id and
\* finished, its events appended to the same log after the first job's.
C19_Witness ==
    /\ cleaned.removed = 1
    /\ now = 1
    /\ proc[1].pc = "done" /\ proc[2].pc = "done"
    /\ jobObj[2].status = "completed"
    /\ jobObj[2].threadId = jobObj[1].threadId
    /\ jobObj[2].threadId \in DOMAIN threadRows
    /\ jobObj[2].threadId \in DOMAIN amThreads
    /\ amThreads[jobObj[2].threadId].lastActivity = 1
    /\ \E i, k \in DOMAIN threadEventsTbl :
          /\ i < k
          /\ threadEventsTbl[i].jobId = 1 /\ threadEventsTbl[k].jobId = 2
          /\ threadEventsTbl[i].threadId = jobObj[2].threadId
          /\ threadEventsTbl[k].threadId = jobObj[2].threadId


\* C20: once a thread row exists, its stored agentType never changes, whatever jobs
\* run and whatever they hand to upsertThread.
C20_AgentTypeBound ==
    [][ \A id \in DOMAIN threadRows :
           /\ id \in DOMAIN threadRows'
           /\ threadRows'[id].agentType = threadRows[id].agentType
      ]_vars


\* C21 as stated: every response of a mutating dashboard route carries maxPlots = 6.
C21_Original == httpResp.route # "none" => httpResp.maxPlots = 6

\* C21 (as amended): the responses of the mutating dashboard routes that carry
\* maxPlots = 6 are the successful creation (201) and renaming (200) of a dashboard
\* and the failures of add plot and update plot that come from an exception of the
\* store (400 for a dashboard at capacity, 500 otherwise); every other response of
\* these routes (a plot added 201 or updated 200, a rejected body 400, a missing
\* dashboard or plot 404, a failed creation or renaming 500) has no maxPlots field.
C21_MaxPlotsEchoed ==
    httpResp.route # "none" =>
       /\ httpResp.maxPlots \in {6, -1}
       /\ httpResp.maxPlots = 6 <=>
             \/ /\ httpResp.route \in {"POST /dashboards", "PUT /dashboards/:dashboardId"}
                /\ httpResp.status \in {200, 201}
             \/ /\ httpResp.route \in {"POST /dashboards/:dashboardId/plots",
                                       "PUT /dashboards/:dashboardId/plots/:plotId"}
                /\ httpResp.error \in {"Dashboard is at capacity", "Failed to add plot",
                                       "Failed to update plot"}
       /\ httpResp.error = "Dashboard is at capacity" =>
             (httpResp.status = 400 /\ dashResp.result = "Dashboard is at capacity")
       /\ httpResp.error \in {"Failed to add plot", "Failed to update plot"} =>
             httpResp.status = 500
       /\ httpResp.status \in {200, 201} <=> httpResp.error = "<null>"

\* C21 witness: a move into the full dashboard 1 was refused with 400 and
\* maxPlots 6.
C21_Witness ==
    /\ httpResp.route = "PUT /dashboards/:dashboardId/plots/:plotId"
    /\ httpResp.status = 400
    /\ httpResp.maxPlots = 6
    /\ Cardinality({p \in DOMAIN plots : plots[p].dashboardId = 1}) = 6
    /\ dashResp.op = "updatePlot"


\* C22: with addPlot and moving updatePlot calls suspended between their capacity
\* count and their write and resumed in any order, no dashboard ever holds more than
\* MAX_PLOTS_PER_DASHBOARD (6) plots.
C22_CapacityUnderConcurrency ==
    \A d \in DashIds : Cardinality({p \in DOMAIN plots : plots[p].dashboardId = d}) <= 6


\* The runtime events a job has in thread_events, in row order.
RECURSIVE PersistedFrom(_, _)
PersistedFrom(tbl, j) ==
    IF tbl = <<>> THEN <<>>
    ELSE IF Head(tbl).jobId = j /\ Head(tbl).eventPayload[2].type = "agent_event"
            /\ Head(tbl).eventPayload[2].event.type # "response_item"
         THEN <<Head(tbl).eventPayload[2].event>> \o PersistedFrom(Tail(tbl), j)
         ELSE PersistedFrom(Tail(tbl), j)
\* How many runtime events the job relayed before it announced its thread
\* (thread_info is sent once the thread's row is written under a canonical id).
RelayedBeforeInfo(j) ==
    LET i == CHOOSE x \in ThreadInfoSends(j) : \A y \in ThreadInfoSends(j) : x <= y
    IN Len(RelayedFrom(SubSeq(hist[j], 1, i - 1)))

\* C23: with no persistence failure, the runtime events a job has in the durable
\* log are, in relay order, the relayed runtime events from the one that followed
\* the announcement of the canonical id on (all of them but the last while that
\* one's append is awaited); after a placeholder phase the first of them is the
\* thread.started event that revealed the id, the earlier ones are in no row; a job
\* that never learned a canonical id has none; and every row carries the job id
\* and the thread id of its payload, a canonical one.
C23_PersistedSuffix ==
    dbFails = 0 =>
      /\ \A i \in DOMAIN threadEventsTbl :
            /\ threadEventsTbl[i].eventPayload[2].jobId = threadEventsTbl[i].jobId
            /\ threadEventsTbl[i].threadId[1] = "th"
            /\ threadEventsTbl[i].eventPayload[2].type = "agent_event" =>
                  threadEventsTbl[i].eventPayload[2].threadId = threadEventsTbl[i].threadId
      /\ \A j \in JobIds :
            LET rel == Relayed(j)
                per == PersistedFrom(threadEventsTbl, j)
            IN IF ThreadInfoSends(j) = {}
               THEN per = <<>>
               ELSE LET k == RelayedBeforeInfo(j)
                        n == IF proc[j].pc = "appendEvent" THEN Len(rel) - 1 ELSE Len(rel)
                    IN /\ per = SubSeq(rel, k + 1, n)
                       /\ (k > 0 /\ Len(rel) > k) => rel[k + 1].type = "thread.started"
                       /\ \A a \in 1..k : \A b \in DOMAIN per : per[b] # rel[a]

\* C23 witness: a finished job whose stream yielded an item under the placeholder id
\* and then thread.started: both were relayed, only the second is in the log.
C23_Witness ==
    \E j \in JobIds :
        /\ proc[j].pc = "done"
        /\ dbFails = 0
        /\ Len(Relayed(j)) = 2
        /\ Relayed(j)[1].type = "item.completed"
        /\ Relayed(j)[2].type = "thread.started"
        /\ PersistedFrom(threadEventsTbl, j) = <<Relayed(j)[2]>>


\* What a job handed to sendToClient (thread_info apart) or to appendEvent, in call order.
CallData(j, op) ==
    LET h == SelectSeq(hist[j], LAMBDA c : c.op = op /\ c.data.type # "thread_info")
    IN [i \in DOMAIN h |-> h[i].data]
\* The payloads a job has in the log of the shared thread, in row order.
PairLog(j) ==
    LET r == SelectSeq(threadEventsTbl,
                       LAMBDA row : row.jobId = j /\ row.threadId = PairThread)
    IN [i \in DOMAIN r |-> JSONParse(r[i].eventPayload)]

\* C24: two jobs in flight on one canonical thread, no failure: every row of the log
\* belongs to the thread and to one of the jobs; each job's rows are, in row order,
\* exactly the events it appended, which are the events it relayed, in relay order
\* (the last relayed one missing while its append is awaited), without repetition;
\* a finished job's rows start with its user-message event and end with its
\* job_complete or error event.
C24_InterleavedLog ==
    /\ \A i \in DOMAIN threadEventsTbl :
          threadEventsTbl[i].threadId = PairThread /\ threadEventsTbl[i].jobId \in jobs
    /\ \A j \in JobIds :
          LET log == PairLog(j)
              sent == CallData(j, "send")
          IN /\ log = CallData(j, "append")
             /\ IsPrefix(log, sent)
             /\ Len(sent) - Len(log) <= 1
             /\ \A a, b \in DOMAIN log : a # b => log[a] # log[b]
             /\ proc[j].pc = "done" =>
                   /\ log = sent
                   /\ Len(log) >= 2
                   /\ log[1] = userEvent(j, "chat", PairThread, "hi")
                   /\ log[Len(log)].type \in {"job_complete", "error"}
                   /\ \A a \in 1..(Len(log) - 1) : log[a].type = "agent_event"

\* C24 witness: both jobs are finished, one completed and one in error, and the
\* log alternates between them: a row of one job lies between two rows of the other,
\* both ways round.
C24_Witness ==
    /\ \A j \in JobIds : proc[j].pc = "done"
    /\ \E j, k \in JobIds : jobObj[j].status = "completed" /\ jobObj[k].status = "error"
    /\ \E a, b, c, d \in DOMAIN threadEventsTbl :
          /\ a < b /\ b < c /\ c < d
          /\ threadEventsTbl[a].jobId = 1 /\ threadEventsTbl[b].jobId = 2
          /\ threadEventsTbl[c].jobId = 1 /\ threadEventsTbl[d].jobId = 2


\* The job started under a placeholder id: it named no thread, or a placeholder.
StartedOnPlaceholder(j) ==
    /\ resp.jobId = j /\ resp.status = 200
    /\ resp.req.threadId = NoId \/ IsPlaceholder(resp.req.threadId)
    /\ proc[j].pc \notin {"none", "queued"}
\* The canonical id the job's stream revealed first.
FirstRevealed(j) ==
    LET S == {i \in DOMAIN yielded[j] : yielded[j][i].type = "thread.started"
                                        /\ yielded[j][i].thread_id # NoId}
    IN IF S = {} THEN NoId
       ELSE yielded[j][CHOOSE i \in S : \A k \in S : i <= k].thread_id
\* A step re-keys the registry: a placeholder key leaves it, the sweep apart.
Rekeys(t) ==
    /\ IsPlaceholder(t)
    /\ t \in DOMAIN amThreads /\ t \notin DOMAIN amThreads'
    /\ cleaned' = cleaned

\* C25: a placeholder key leaves the registry (the sweep apart) only in the step
\* where the job working under it receives the first thread.started event of its
\* stream: the handle moves to the canonical id of that event, which becomes the
\* job's threadId, so the re-keying happens at most once per job.  From then on the
\* job's threadId and working id stay that canonical id, the registry holds no
\* placeholder key, no placeholder handle's activity is touched, and every
\* thread_info, agent_event and job_complete the job sends or appends, and every
\* row it stores, carries that id.
C25_RekeyedOnce ==
    /\ [][\A t \in DOMAIN amThreads : Rekeys(t) =>
            \E j \in JobIds :
                /\ proc[j].actualThreadId = t
                /\ FirstRevealed(j) = NoId
                /\ FirstRevealed(j)' # NoId
                /\ Len(yielded'[j]) = Len(yielded[j]) + 1
                /\ FirstRevealed(j)' \in DOMAIN amThreads'
                /\ amThreads'[FirstRevealed(j)'] = amThreads[t]
                /\ jobObj'[j].threadId = FirstRevealed(j)'
                /\ proc'[j].actualThreadId = FirstRevealed(j)']_vars
    /\ [](\A j \in JobIds :
            (StartedOnPlaceholder(j) /\ FirstRevealed(j) # NoId) =>
               LET c == FirstRevealed(j)
                   info == ThreadInfoSends(j)
               IN /\ jobObj[j].threadId = c
                  /\ proc[j].actualThreadId = c
                  /\ \A k \in DOMAIN amThreads : ~IsPlaceholder(k)
                  /\ \A i \in RowsOf(j) : threadEventsTbl[i].threadId = c
                  /\ \A i \in DOMAIN hist[j] :
                        (info # {} /\ \A x \in info : x <= i
                         /\ hist[j][i].data.type \in {"thread_info", "agent_event", "job_complete"})
                        => hist[j][i].data.threadId = c)
    /\ [][\A k \in DOMAIN amThreads' :
            (IsPlaceholder(k) /\ k \in DOMAIN amThreads
             /\ \E j \in JobIds : StartedOnPlaceholder(j) /\ FirstRevealed(j) # NoId)
            => amThreads'[k] = amThreads[k]]_vars

\* C25 witness: a finished job submitted at time 0 on a new thread, re-keyed by a
\* first thread.started, whose stream then yielded a second thread.started naming
\* another id: the handle sits under the first id only, its activity refreshed at
\* time 1.
C25_Witness ==
    \E j \in JobIds :
        /\ proc[j].pc = "done"
        /\ resp.jobId = j /\ resp.req.threadId = NoId
        /\ Len(yielded[j]) = 2
        /\ yielded[j][1].type = "thread.started"
        /\ yielded[j][2].type = "thread.started"
        /\ yielded[j][2].thread_id # yielded[j][1].thread_id
        /\ jobObj[j].threadId = yielded[j][1].thread_id
        /\ DOMAIN amThreads = {yielded[j][1].thread_id}
        /\ amThreads[yielded[j][1].thread_id].lastActivity = 1
        /\ jobObj[j].startTime = 0


\* A step takes jobs out of the map.
Purges == jobs \ jobs' # {}
\* The job ended more than an hour ago (the clock counts hours).
Expired(j) == jobObj[j].endTime # -1 /\ now - jobObj[j].endTime > 1
\* The step that removes jobs removes exactly the expired ones and touches nothing
\* else: no job record, no processChat, no frame, no row.
PurgeExact ==
    /\ \A j \in jobs : j \notin jobs' <=> Expired(j)
    /\ \A j \in jobs \ jobs' : jobObj[j].endTime # -1
    /\ UNCHANGED <<jobObj, proc, hist, frames, threadRows, threadEventsTbl, amThreads>>
\* processChat has not left its try block yet: the completion or the catch block,
\* which set endTime, have not run.
LoopRunning(j) == proc[j].pc \notin {"none", "done", "appendComplete", "appendError"}
\* A finished processChat left its whole relay in the log, whether or not the job
\* is still in the map.
FinishedLogged ==
    \A j \in JobIds : proc[j].pc = "done" =>
        /\ PairLog(j) = CallData(j, "send")
        /\ PairLog(j)[1] = userEvent(j, "chat", PairThread, "hi")
        /\ PairLog(j)[Len(PairLog(j))].type \in {"job_complete", "error"}

\* C26 as stated: the sweep removes exactly the jobs whose endTime is more than an
\* hour old, never one without endTime and never one whose processChat is still
\* running, and a removed job relays and persists as it would have.
C26_Original ==
    /\ [][Purges => (PurgeExact /\ \A j \in jobs \ jobs' : ~LoopRunning(j))]_vars
    /\ []FinishedLogged

\* C26, amended: the sweep removes exactly the jobs whose endTime is more than an
\* hour old and never one without endTime; a job whose processChat is still running
\* is removed only when a stop request had given it an endTime more than an hour
\* before; the removal changes no job record, frame or row, and a processChat that
\* finishes, in the map or not, has left its whole relay in the log.
C26_PurgeRetention ==
    /\ [][Purges =>
            (PurgeExact /\ \A j \in jobs \ jobs' :
                LoopRunning(j) => nStops > 0)]_vars
    /\ []FinishedLogged

\* C26 witness: at hour 2 job 1, which ended at hour 0, is out of the map, and
\* job 2, which ended at hour 1, is still in it; both logs are complete.
C26_Witness ==
    /\ now = 2
    /\ jobs = {2}
    /\ proc[1].pc = "done" /\ jobObj[1].endTime = 0
    /\ proc[2].pc = "done" /\ jobObj[2].endTime = 1
    /\ PairLog(1) = CallData(1, "send") /\ Len(PairLog(1)) >= 3
    /\ PairLog(2) = CallData(2, "send") /\ Len(PairLog(2)) >= 3


\* An item.completed event whose item is an agent message with text.
HasText(e) == e.type = "item.completed" /\ e.text \notin {Nil, ""}
\* The text of the last agent message of a sequence of events, Nil without one.
LastText(evs) ==
    LET S == {i \in DOMAIN evs : HasText(evs[i])}
    IN IF S = {} THEN Nil ELSE evs[CHOOSE i \in S : \A k \in S : k <= i].text
\* lastAgentMessage of the job's thread, "<no row>" when the thread has no row.
StoredMessage(j) ==
    IF jobObj[j].threadId \in DOMAIN threadRows
    THEN threadRows[jobObj[j].threadId].lastAgentMessage ELSE "<no row>"
\* The loop has finished its iteration on the last event the stream yielded.
Processed(j) == proc[j].pc = "stream" /\ proc[j].consumed > 0

\* C27 as stated: once a job has processed an agent message with text, the stored
\* lastAgentMessage of its thread is that text, and when the job has completed it
\* is the text of the last such event of the stream.
C27_Original ==
    \A j \in JobIds : dbFails = 0 =>
        /\ (Processed(j) /\ HasText(proc[j].event)) => StoredMessage(j) = proc[j].event.text
        /\ (proc[j].pc = "done" /\ jobObj[j].status = "completed"
            /\ LastText(yielded[j]) # Nil) => StoredMessage(j) = LastText(yielded[j])

\* C27, amended: the same for the agent messages processed once the thread's
\* metadata is persisted under its canonical id, no persistence operation having
\* failed: each sets lastAgentMessage to its text, and after the job has completed
\* lastAgentMessage is the text of the last of them (none if there was none);
\* agent messages relayed before the canonical id was known leave no trace, and
\* without a thread row nothing is stored.
C27_LastAgentMessage ==
    \A j \in JobIds : dbFails = 0 =>
        /\ (Processed(j) /\ HasText(proc[j].event) /\ proc[j].threadMetadataPersisted)
              => StoredMessage(j) = proc[j].event.text
        /\ (Processed(j) /\ ~proc[j].threadMetadataPersisted) => StoredMessage(j) = "<no row>"
        /\ (proc[j].pc = "done" /\ jobObj[j].status = "completed") =>
              IF proc[j].threadMetadataPersisted
              THEN StoredMessage(j) = LastText(PersistedFrom(threadEventsTbl, j))
              ELSE threadRows = <<>>

\* C27 witness: a completed job on a canonical thread whose stream yielded the
\* agent messages "one" then "two": lastAgentMessage is "two".
C27_Witness ==
    \E j \in JobIds :
        /\ proc[j].pc = "done" /\ jobObj[j].status = "completed" /\ dbFails = 0
        /\ Len(yielded[j]) = 2
        /\ yielded[j][1].text = "one" /\ yielded[j][2].text = "two"
        /\ StoredMessage(j) = "two"


\* A step that is an upsertThread call on a stored id, or on an absent one.
UpsertOn(exists) ==
    /\ storeResp' # storeResp \/ threadRows' # threadRows
    /\ storeResp'.op = "upsertThread"
    /\ (storeResp'.id \in DOMAIN threadRows) = exists
\* The call inserts exactly one row, holding the fields given (null for those left
\* out), and leaves the other rows alone.
InsertsGiven ==
    LET p == storeResp'.payload
    IN /\ DOMAIN threadRows' = DOMAIN threadRows \cup {p.id}
       /\ \A x \in DOMAIN threadRows : threadRows'[x] = threadRows[x]
       /\ threadRows'[p.id] = [agentType |-> p.agentType, title |-> p.title,
                               lastUserMessage |-> p.lastUserMessage,
                               lastAgentMessage |-> p.lastAgentMessage,
                               lastClientId |-> p.lastClientId,
                               createdAt |-> now, updatedAt |-> now]

\* C28 as stated: an upsertThread on a stored id gives agentType, lastUserMessage,
\* lastAgentMessage, lastClientId and updatedAt the values of this call; on an
\* absent id it inserts exactly one row with the given fields.
C28_Original ==
    [][ /\ UpsertOn(TRUE) =>
             LET p == storeResp'.payload
                 row == threadRows'[p.id]
             IN /\ row.agentType = p.agentType
                /\ row.lastUserMessage = p.lastUserMessage
                /\ row.lastAgentMessage = p.lastAgentMessage
                /\ row.lastClientId = p.lastClientId
                /\ row.updatedAt = now
        /\ UpsertOn(FALSE) => InsertsGiven
      ]_vars

\* C28, amended: an upsertThread on a stored id sets agentType and updatedAt to the
\* call's values, sets each of lastUserMessage, lastAgentMessage and lastClientId to
\* the call's value when it gives one and keeps the stored value when it gives
\* none, keeps createdAt, and touches no other row; on an absent id it inserts
\* exactly one row with the given fields.
C28_UpsertFields ==
    [][ /\ UpsertOn(TRUE) =>
             LET p == storeResp'.payload
                 old == threadRows[p.id]
                 row == threadRows'[p.id]
             IN /\ DOMAIN threadRows' = DOMAIN threadRows
                /\ \A x \in DOMAIN threadRows \ {p.id} : threadRows'[x] = threadRows[x]
                /\ row.agentType = p.agentType
                /\ row.updatedAt = now
                /\ row.createdAt = old.createdAt
                /\ row.lastUserMessage =
                      IF p.lastUserMessage = "<null>" THEN old.lastUserMessage
                      ELSE p.lastUserMessage
                /\ row.lastAgentMessage =
                      IF p.lastAgentMessage = "<null>" THEN old.lastAgentMessage
                      ELSE p.lastAgentMessage
                /\ row.lastClientId =
                      IF p.lastClientId = "<null>" THEN old.lastClientId
                      ELSE p.lastClientId
        /\ UpsertOn(FALSE) => InsertsGiven
      ]_vars

\* C28 witness: thread th1, created at time 0 by agent "chat" with user message
\* "u1" and agent message "m1", after an upsert at time 1 by agent "sql" that gave
\* user message "u2" and no agent message; thread th2 is stored too.
C28_Witness ==
    /\ storeResp.op = "upsertThread"
    /\ storeResp.payload.id = <<"th", 1>>
    /\ storeResp.payload.agentType = "sql"
    /\ storeResp.payload.lastUserMessage = "u2"
    /\ storeResp.payload.lastAgentMessage = "<null>"
    /\ <<"th", 2>> \in DOMAIN threadRows
    /\ <<"th", 1>> \in DOMAIN threadRows
    /\ threadRows[<<"th", 1>>].agentType = "sql"
    /\ threadRows[<<"th", 1>>].lastUserMessage = "u2"
    /\ threadRows[<<"th", 1>>].lastAgentMessage = "m1"
    /\ threadRows[<<"th", 1>>].createdAt = 0
    /\ threadRows[<<"th", 1>>].updatedAt = 1


\* A step that is an updatePlot call.
UpdatePlotCall ==
    /\ dashResp' # dashResp \/ plots' # plots
    /\ dashResp'.op = "updatePlot"
\* What a supplied chart payload is stored as.
StoredJson(v) == <<"json", v>>

\* C29: an updatePlot call on a stored plot that is carried out leaves every other
\* plot, every dashboard and the plot's createdAt alone and gives the plot, field
\* by field, the supplied value or else the stored one: dashboardId, title,
\* chartSpec, chartOption (a supplied null clears it) and each of x, y, w, h; a call
\* the store refuses (capacity, foreign key) changes nothing; a call on a missing
\* plot id returns null and changes nothing.
C29_PatchIndependent ==
    [][ UpdatePlotCall =>
          LET id == dashResp'.arg
              u == dashResp'.req
          IN /\ dashboards' = dashboards
             /\ nextPlot' = nextPlot
             /\ DOMAIN plots' = DOMAIN plots
             /\ \A q \in DOMAIN plots \ {id} : plots'[q] = plots[q]
             /\ id \notin DOMAIN plots => (dashResp'.result = "null" /\ plots' = plots)
             /\ (id \in DOMAIN plots /\ dashResp'.result # "ok") => plots' = plots
             /\ (id \in DOMAIN plots /\ dashResp'.result = "ok") =>
                   LET old == plots[id]
                       new == plots'[id]
                   IN /\ new.dashboardId = IF u.dashboardId = 0 THEN old.dashboardId
                                           ELSE u.dashboardId
                      /\ new.title = IF u.title = "<undefined>" THEN old.title ELSE u.title
                      /\ new.chartSpec = IF u.chartSpec = "<undefined>" THEN old.chartSpec
                                         ELSE StoredJson(u.chartSpec)
                      /\ new.chartOption =
                            IF u.chartOption = "<undefined>" THEN old.chartOption
                            ELSE IF u.chartOption = "<null>" THEN "<null>"
                            ELSE StoredJson(u.chartOption)
                      /\ new.layoutX = IF u.layout.x = -1 THEN old.layoutX ELSE u.layout.x
                      /\ new.layoutY = IF u.layout.y = -1 THEN old.layoutY ELSE u.layout.y
                      /\ new.layoutW = IF u.layout.w = -1 THEN old.layoutW ELSE u.layout.w
                      /\ new.layoutH = IF u.layout.h = -1 THEN old.layoutH ELSE u.layout.h
                      /\ new.createdAt = old.createdAt
      ]_vars

\* C29 witness: the last updatePlot supplied a title and x only, on a plot whose
\* chart spec, dashboard, y and h had been set by earlier updates and whose w is
\* still the default: the plot holds the new title and x and the earlier values.
C29_Witness ==
    /\ dashResp.op = "updatePlot" /\ dashResp.result = "ok"
    /\ dashResp.req.title = "t2" /\ dashResp.req.layout = [x |-> 3, y |-> -1, w |-> -1, h |-> -1]
    /\ dashResp.req.chartSpec = "<undefined>" /\ dashResp.req.dashboardId = 0
    /\ plots[dashResp.arg].title = "t2"
    /\ plots[dashResp.arg].layoutX = 3
    /\ plots[dashResp.arg].layoutY = 1
    /\ plots[dashResp.arg].layoutW = 6
    /\ plots[dashResp.arg].layoutH = 4
    /\ plots[dashResp.arg].chartSpec = StoredJson("s2")
    /\ plots[dashResp.arg].dashboardId = 2


\* The position in a batch of the first entry whose trimmed text is x.
FirstOf(b, x) ==
    CHOOSE i \in NonBlank(b) :
        StripEnds(b[i]) = x /\ \A k \in NonBlank(b) : StripEnds(b[k]) = x => i <= k

\* C30: for every saveKnowledgeEntries call on every store content: saved +
\* duplicates is the number of entries whose trimmed text is not empty; saved is
\* the number of distinct trimmed texts of the batch that were not stored; the
\* store grows at its end by exactly one row per such text, in the order of their
\* first occurrences, each row holding the trimmed text, its hash and the message
\* id of the first entry of the batch that carries the text; and no two stored rows
\* share a sqlHash.
C30_SaveAccounting ==
    /\ [](\A i, k \in DOMAIN knowledge :
            knowledge[i].sqlHash = knowledge[k].sqlHash => i = k)
    /\ [][ knowResp' # knowResp =>
             LET b == knowResp'.entries
                 fresh == TextsOf(b) \ StoredTexts
                 n == Len(knowledge)
                 added == SubSeq(knowledge', n + 1, Len(knowledge'))
             IN /\ knowResp'.saved + knowResp'.duplicates = Cardinality(NonBlank(b))
                /\ knowResp'.saved = Cardinality(fresh)
                /\ SubSeq(knowledge', 1, n) = knowledge
                /\ Len(added) = Cardinality(fresh)
                /\ {added[i].sqlText : i \in DOMAIN added} = fresh
                /\ \A i \in DOMAIN added :
                      /\ added[i].sqlHash = <<"sha256", added[i].sqlText>>
                      /\ added[i].messageId = FirstOf(b, added[i].sqlText)
                      /\ added[i].createdAt = now
                /\ \A i, k \in DOMAIN added : i < k => added[i].messageId < added[k].messageId
         ]_vars

\* C30 witness: with "a" stored, the batch of " a" and "b" was saved: one row saved,
\* one duplicate, and the new row "b" carries the second entry's message id.
C30_Witness ==
    /\ knowResp.entries = << <<" ", "a">>, <<"b">> >>
    /\ knowResp.saved = 1 /\ knowResp.duplicates = 1
    /\ Len(knowledge) = 2
    /\ knowledge[1].sqlText = <<"a">>
    /\ knowledge[2].sqlText = <<"b">> /\ knowledge[2].messageId = 2

\* ---------------------------------------------------------------------- C31
\* The hashes a call's batch carries.
HashesOf(batch) ==
    LET prep == prepared(EntriesOf(batch)) IN {prep[i].sqlHash : i \in DOMAIN prep}
SaveCall(c) == storeCalls[c].pc # "none" /\ storeCalls[c].op = "save"
\* Two finished calls that both carried hash h and both looked it up before
\* either inserted it.
BothMissed(c1, c2, h) ==
    /\ c1 # c2 /\ SaveCall(c1) /\ SaveCall(c2)
    /\ storeCalls[c1].pc = "done" /\ storeCalls[c2].pc = "done"
    /\ h \in HashesOf(storeCalls[c1].batch) \cap HashesOf(storeCalls[c2].batch)
    /\ h \notin storeCalls[c1].found \cup storeCalls[c2].found
\* C31: when two saveKnowledgeEntries calls carrying the same new text
\* interleave between the lookup and the insert, the store ends with exactly
\* one entry for that hash, neither call fails, and the two results together
\* report as many saved entries as there are rows in the store.
C31_ConcurrentSaves ==
    \A c1, c2 \in CallIds :
      \A h \in (IF SaveCall(c1) THEN HashesOf(storeCalls[c1].batch) ELSE {}) :
        BothMissed(c1, c2, h) =>
          /\ Cardinality({k \in DOMAIN knowledge : knowledge[k].sqlHash = h}) = 1
          /\ ~storeCalls[c1].threw /\ ~storeCalls[c2].threw
          /\ storeCalls[c1].saved + storeCalls[c2].saved = Len(knowledge)

\* What the unique index does keep: no two stored entries share a hash.
C31_OneEntryPerHash ==
    \A k1, k2 \in DOMAIN knowledge :
        knowledge[k1].sqlHash = knowledge[k2].sqlHash => k1 = k2

\* ---------------------------------------------------------------------- C32
\* Channel ch is the channel client c registered last, and it is open.
LatestOpen(c, ch) ==
    /\ channelOf[ch] = c /\ ch \in chanOpen
    /\ \A ch2 \in ChannelIds : ch2 > ch => channelOf[ch2] # c
\* An earlier channel of c has closed.
EarlierClosed(c, ch) ==
    \E ch1 \in ChannelIds : ch1 < ch /\ channelOf[ch1] = c /\ ch1 \notin chanOpen
\* C32: once client c has registered a second channel, the close of the first
\* one leaves c registered on the second: while the second channel is open
\* (and no write on it has thrown) isClientConnected(c) holds and sends go to it.
C32_SupersededClose ==
    \A c \in ClientIds, ch \in ChannelIds :
        (LatestOpen(c, ch) /\ EarlierClosed(c, ch) /\ writeFails = 0)
            => (isClientConnected(c) /\ clients[c] = ch)

\* ---------------------------------------------------------------------- C33
IsTerminal(data) == data.type \in {"job_complete", "error"}
\* The positions in a job's call log where a terminal event is sent.
TerminalSends(j) == {i \in Calls(j, "send") : IsTerminal(hist[j][i].data)}
\* The job has left its try block: the stream ended or something threw.
Finished(j) == proc[j].pc \in {"appendComplete", "appendError", "done"}
\* The rows of thread_events that hold a terminal event of job j.
TerminalRows(j) ==
    {i \in RowsOf(j) : IsTerminal(JSONParse(threadEventsTbl[i].eventPayload))}
\* C33: a job that has left its try block has sent exactly one terminal event
\* (job_complete or error, never both), a running job none; after the terminal
\* event the job sends and appends no agent_event, no channel receives one
\* after it, and no agent_event row of the job follows its terminal row.
C33_OneTerminalEvent ==
    \A j \in JobIds :
        /\ Cardinality(TerminalSends(j)) = (IF Finished(j) THEN 1 ELSE 0)
        /\ \A t \in TerminalSends(j) : \A i \in DOMAIN hist[j] :
              i > t => /\ hist[j][i].op = "append"
                       /\ hist[j][i].data = hist[j][t].data
        /\ Cardinality(TerminalRows(j)) <= 1
        /\ \A t \in TerminalRows(j) : \A i \in RowsOf(j) : i <= t
        /\ \A p \in FramesOf(j, "job_complete") \cup FramesOf(j, "error") :
              /\ \A q \in FramesOf(j, "agent_event") : q[1] = p[1] => q[2] < p[2]
              /\ \A q \in FramesOf(j, "job_complete") \cup FramesOf(j, "error") : q = p
\* A job whose stream ended after relaying and storing an event, its completion
\* received on the channel and stored.
C33_Witness ==
    /\ \E j \in JobIds :
          /\ proc[j].pc = "done" /\ jobObj[j].status = "completed"
          /\ FramesOf(j, "job_complete") # {} /\ FramesOf(j, "agent_event") # {}
          /\ TerminalRows(j) # {} /\ Cardinality(RowsOf(j)) >= 3

\* ---------------------------------------------------------------------- C34
\* The first row of thread_events tagged with job j.
FirstRow(j) == CHOOSE i \in RowsOf(j) : \A k \in RowsOf(j) : i <= k
\* C34 as stated: in the durable log, the first event tagged with a jobId is
\* that job's user-message event.
C34_Original ==
    \A j \in JobIds :
        RowsOf(j) # {} => IsUserMessage(JSONParse(threadEventsTbl[FirstRow(j)].eventPayload))
\* The rows of job j that hold a runtime event or the completion event.
TurnRows(j) ==
    {i \in RowsOf(j) :
        LET data == JSONParse(threadEventsTbl[i].eventPayload)
        IN IsRuntimeEvent(data) \/ data.type = "job_complete"}
\* C34 (amended): a job's user-message event, once stored, is the first event
\* tagged with its jobId; a runtime event or job_complete is stored only after
\* the job issued its user-message append; and unless a persistence operation
\* failed (and was swallowed), an issued user-message append is stored.  An
\* error event may be stored alone, for a job that failed before it issued its
\* user message.
C34_UserMessageFirst ==
    \A j \in JobIds :
        /\ UserRows(j) # {} => FirstRow(j) \in UserRows(j)
        /\ TurnRows(j) # {} => UserAppends(j) # {}
        /\ (UserAppends(j) # {} /\ dbFails = 0) => UserRows(j) # {}
        /\ Cardinality(UserRows(j)) <= 1
\* A finished job with its user message, a runtime event and its completion stored.
C34_Witness ==
    \E j \in JobIds :
        /\ proc[j].pc = "done" /\ UserRows(j) # {} /\ dbFails = 0
        /\ \E i \in TurnRows(j) :
              IsRuntimeEvent(JSONParse(threadEventsTbl[i].eventPayload))
        /\ \E i \in TurnRows(j) :
              JSONParse(threadEventsTbl[i].eventPayload).type = "job_complete"

\* ---------------------------------------------------------------------- C35
\* The thread ids job j's rows are stored under, and the ids its rows' events,
\* its thread_info sends and the thread_info frames it got through carry.
RowThreads(j) == {threadEventsTbl[i].threadId : i \in RowsOf(j)}
InfoThreads(j) ==
    {hist[j][i].data.threadId : i \in ThreadInfoSends(j)}
      \cup {JSONParse(frames[p[1]][p[2]]).threadId : p \in FramesOf(j, "thread_info")}
\* C35: all rows of thread_events with one jobId are stored under one thread
\* id, the job's threadId field; the job sends at most one thread_info frame
\* and it carries that id; a job with a stored user message, runtime event or
\* completion has sent exactly one.
C35_OneThreadPerJob ==
    \A j \in JobIds :
        /\ RowThreads(j) \subseteq {jobObj[j].threadId}
        /\ Cardinality(ThreadInfoSends(j)) <= 1
        /\ InfoThreads(j) \subseteq {jobObj[j].threadId}
        /\ (UserRows(j) \cup TurnRows(j)) # {} => Cardinality(ThreadInfoSends(j)) = 1
\* A finished job that started on a placeholder: its rows, its thread_info frame
\* and its threadId field name the canonical id the stream revealed.
C35_Witness ==
    \E j \in JobIds :
        /\ proc[j].pc = "done" /\ StartedOnPlaceholder(j)
        /\ Cardinality(RowsOf(j)) >= 3
        /\ FramesOf(j, "thread_info") # {}
        /\ InfoThreads(j) = {jobObj[j].threadId}

\* ---------------------------------------------------------------------- C36
\* C36: every row of thread_events names a thread that has a row in threads;
\* in particular a job whose upsert failed, on an id with no row, stores none
\* of its events under that id.
C36_EventsReferenceThreads ==
    \A i \in DOMAIN threadEventsTbl : threadEventsTbl[i].threadId \in DOMAIN threadRows

\* ---------------------------------------------------------------------- C37
\* The events job j handed to appendEvent, in call order.
AppendLog(j) ==
    LET calls == SelectSeq(hist[j], LAMBDA h : h.op = "append")
    IN [i \in DOMAIN calls |-> calls[i].data]
\* The job's turn started on a placeholder: the client supplied one, or
\* startThread minted one (one job is run, so the counter tells).
OnPlaceholder(j) ==
    (resp.jobId = j /\ isTemporaryThreadId(resp.req.threadId)) \/ nextTemp > 0
\* The position of the first event of the stream that reveals a thread id; 0
\* if there is none.
RevealAt(j) ==
    LET S == {i \in DOMAIN yielded[j] :
                 yielded[j][i].type = "thread.started" /\ yielded[j][i].thread_id # NoId}
    IN IF S = {} THEN 0 ELSE CHOOSE i \in S : \A k \in S : i <= k
\* The position of the stream from which events are durable: all of it on a
\* canonical thread, from the revealing event on a placeholder.
DurableFrom(j) == IF OnPlaceholder(j) THEN RevealAt(j) ELSE 1
\* What the job is to append, read off the request, the outcome of the thread
\* acquisition, the events the stream yielded and how the turn ended; no
\* channel, registration or frame is consulted.
ExpectedLog(j) ==
    LET job == jobObj[j]
        tid == proc[j].actualThreadId
        from == DurableFrom(j)
        acquired == AgentKnown(job.agentType)
        body == IF ~acquired \/ from = 0 THEN <<>>
                ELSE <<userEvent(j, job.agentType, tid, proc[j].message)>>
                     \o [i \in 1..(Len(yielded[j]) - from + 1) |->
                           transformedEvent(j, job.agentType, tid, yielded[j][i + from - 1])]
        final == IF job.status = "completed"
                 THEN IF from = 0 THEN <<>>
                      ELSE <<completionEvent(j, tid, job.endTime - job.startTime)>>
                 ELSE IF job.status = "error"
                 THEN IF job.threadId # NoId /\ ~isTemporaryThreadId(job.threadId)
                      THEN <<errorEvent(j, job.error)>> ELSE <<>>
                 ELSE <<>>
    IN body \o final
\* C37: the sequence of events a job appends to ThreadStore is fixed by its
\* request and its runtime event stream: at every point it is a prefix of the
\* expected log, and the whole of it once the job has ended, whether the
\* channel stayed open, closed mid-job or a write on it threw.
C37_DurableWithoutChannel ==
    \A j \in JobIds :
        proc[j].pc # "none" =>
            /\ IsPrefix(AppendLog(j), ExpectedLog(j))
            /\ proc[j].pc = "done" => AppendLog(j) = ExpectedLog(j)
\* A job that appended its user message, an event and its completion while its
\* client was not registered at the end and received no event frame.
C37_Witness ==
    \E j \in JobIds :
        /\ proc[j].pc = "done" /\ jobObj[j].status = "completed"
        /\ Len(AppendLog(j)) >= 3
        /\ ~isClientConnected(jobObj[j].clientId)
        /\ FramesOf(j, "agent_event") = {} /\ FramesOf(j, "job_complete") = {}

\* ---------------------------------------------------------------------- C38
UpsertCall(c) == storeCalls[c].pc # "none" /\ storeCalls[c].op = "upsert"
\* Two finished upsertThread calls for one id whose lookups both found no row.
BothFirst(c1, c2) ==
    /\ c1 # c2 /\ UpsertCall(c1) /\ UpsertCall(c2)
    /\ storeCalls[c1].pc = "done" /\ storeCalls[c2].pc = "done"
    /\ storeCalls[c1].payload.id = storeCalls[c2].payload.id
    /\ storeCalls[c1].existing = <<>> /\ storeCalls[c2].existing = <<>>
\* C38: when two upsertThread calls for an id with no stored row interleave
\* between the lookup and the write, the store ends with a row for that id
\* and neither call fails.
C38_ConcurrentFirstUpserts ==
    \A c1, c2 \in CallIds :
        BothFirst(c1, c2) =>
            /\ storeCalls[c1].payload.id \in DOMAIN threadRows
            /\ ~storeCalls[c1].threw /\ ~storeCalls[c2].threw

\* What the primary key does keep: the row is the one the first INSERT wrote.
C38_FirstInsertStays ==
    \A c1, c2 \in CallIds :
        (BothFirst(c1, c2) /\ storeCalls[c2].threw) =>
            LET p == storeCalls[c1].payload
            IN /\ p.id \in DOMAIN threadRows
               /\ threadRows[p.id].title = p.title
               /\ threadRows[p.id].lastUserMessage = p.lastUserMessage

====
